---- MODULE Spec2Model ----
(***************************************************************************)
(* A model of the worktree CLI (liamawhite/worktree): repository           *)
(* bootstrap, the worktree lifecycle manager and the WT_CHDIR signalling   *)
(* convention.                                                             *)
(*                                                                         *)
(* Strings are sequences of one-character strings, so that Split,         *)
(* HasPrefix, Base and Join are computed character by character.  A path  *)
(* is a sequence of names below the directory P in which `setup` is run:  *)
(* <<>> is P, <<RepoW>> is the repository root, <<RepoW, Main>> is the    *)
(* worktree of branch main.                                               *)
(***************************************************************************)
EXTENDS Integers, Sequences, FiniteSets, TLC

VARIABLES fs, branches, wts, remotes, content, cwd, last

vars == <<fs, branches, wts, remotes, content, cwd, last>>

-----------------------------------------------------------------------------
(* Bounds *)

\* longest repository identifier given to ParseRepoString
MaxRepoLen == 5

-----------------------------------------------------------------------------
(* Characters and names *)

Slash == "/"
NewLine == "\n"
Dot == "."

Main == <<"m", "a", "i", "n">>
Master == <<"m", "a", "s", "t", "e", "r">>
Review == <<"r", "e", "v", "i", "e", "w">>
DotBare == <<".", "b", "a", "r", "e">>
DotGit == <<".", "g", "i", "t">>
DotHooks == <<".", "h", "o", "o", "k", "s">>
PostAddSh == <<"p", "o", "s", "t", "-", "a", "d", "d", ".", "s", "h">>
GitHubCom == <<"g", "i", "t", "h", "u", "b", ".", "c", "o", "m">>
Origin == <<"o", "r", "i", "g", "i", "n">>
Upstream == <<"u", "p", "s", "t", "r", "e", "a", "m">>

\* byte value of the characters that occur in names (US-ASCII)
Code(c) ==
    CASE c = "-" -> 45 [] c = "." -> 46 [] c = "/" -> 47 [] c = ":" -> 58
      [] c = "a" -> 97 [] c = "b" -> 98 [] c = "c" -> 99 [] c = "d" -> 100
      [] c = "e" -> 101 [] c = "f" -> 102 [] c = "g" -> 103 [] c = "h" -> 104
      [] c = "i" -> 105 [] c = "k" -> 107 [] c = "m" -> 109 [] c = "n" -> 110
      [] c = "o" -> 111 [] c = "p" -> 112 [] c = "r" -> 114 [] c = "s" -> 115
      [] c = "t" -> 116 [] c = "u" -> 117 [] c = "v" -> 118 [] c = "w" -> 119
      [] c = "x" -> 120

\* byte-wise comparison of two strings, the order of sort.Slice in os.ReadDir
RECURSIVE StrLess(_, _)
StrLess(s, t) ==
    IF t = <<>> THEN FALSE
    ELSE IF s = <<>> THEN TRUE
    ELSE IF Head(s) = Head(t) THEN StrLess(Tail(s), Tail(t))
    ELSE Code(Head(s)) < Code(Head(t))

\* strings.HasPrefix(s, p)
HasPrefix(s, p) == Len(s) >= Len(p) /\ SubSeq(s, 1, Len(p)) = p

\* strings.Split(s, sep) for a one-character separator: the pieces between
\* the separators, Count(sep)+1 of them, empty pieces included
RECURSIVE SplitFrom(_, _, _)
SplitFrom(s, sep, cur) ==
    IF s = <<>> THEN <<cur>>
    ELSE IF Head(s) = sep THEN <<cur>> \o SplitFrom(Tail(s), sep, <<>>)
    ELSE SplitFrom(Tail(s), sep, Append(cur, Head(s)))

Split(s, sep) == SplitFrom(s, sep, <<>>)

-----------------------------------------------------------------------------
(* pkg/setup: ParseRepoString *)

Nil == [nil |-> TRUE]

\* With(e, LAMBDA x : B) is B with x bound to the value of e
With(v, Body(_)) == Body(v)

\* an absent name and an absent path
NoName == <<"">>
NoPath == <<NoName>>

RepoConfig(domain, org, name, branch) ==
    [Domain |-> domain, Org |-> org, RepoName |-> name, Branch |-> branch]

ParseRepoStringSwapped(repo, defaultBranch) ==
    LET parts == Split(repo, Slash) IN
    CASE Len(parts) = 3 ->
           [err |-> FALSE,
            config |-> RepoConfig(parts[1], parts[2], parts[3], defaultBranch)]
      [] Len(parts) = 2 ->
           [err |-> FALSE,
            config |-> RepoConfig(parts[1], parts[1], parts[2], defaultBranch)]
      [] OTHER -> [err |-> TRUE, config |-> Nil]

ParseRepoString(repo, defaultBranch) ==
    LET parts == Split(repo, Slash) IN
    CASE Len(parts) = 3 ->
           [err |-> FALSE,
            config |-> RepoConfig(parts[1], parts[2], parts[3], defaultBranch)]
      [] Len(parts) = 2 ->
           [err |-> FALSE,
            config |-> RepoConfig(GitHubCom, parts[1], parts[2], defaultBranch)]
      [] OTHER -> [err |-> TRUE, config |-> Nil]

IsGitHubEnterprise(rc) == rc.Domain # GitHubCom

-----------------------------------------------------------------------------
(* The file system: fs maps every existing path below P to "dir", "file"   *)
(* (a regular file without execute permission) or "exec" (a regular file   *)
(* with it); P itself, the empty path, always exists.                      *)

RepoW == <<"w">>
NameA == <<"a">>
NameF == <<"f">>
BranchFA == <<"f", "/", "a">>
BranchAB == <<"a", "/", "b">>
DotH == <<".", "h">>

P == <<>>
Root == <<RepoW>>
Bare == <<RepoW, DotBare>>

NoFiles == [p \in {} |-> "dir"]

Exists(f, p) == p = P \/ p \in DOMAIN f
IsDir(f, p) == p = P \/ (p \in DOMAIN f /\ f[p] = "dir")
IsPrefix(p, q) == Len(p) <= Len(q) /\ SubSeq(q, 1, Len(p)) = p

\* filepath.Base and filepath.Dir of a path
Base(p) == p[Len(p)]
Dir(p) == IF p = P THEN P ELSE SubSeq(p, 1, Len(p) - 1)

\* filepath.Join(dir, rel): rel is split at its separators
Join(dir, rel) == dir \o Split(rel, Slash)

ChildNames(f, d) == {Base(p) : p \in {q \in DOMAIN f : Len(q) = Len(d) + 1 /\ IsPrefix(d, q)}}

RECURSIVE SortNames(_)
SortNames(S) ==
    IF S = {} THEN <<>>
    ELSE LET m == CHOOSE x \in S : \A y \in S \ {x} : StrLess(x, y)
         IN <<m>> \o SortNames(S \ {m})

\* os.ReadDir(d): the entries of d sorted by file name, or an error
ReadDir(f, d) ==
    IF IsDir(f, d)
    THEN [err |-> FALSE, entries |-> SortNames(ChildNames(f, d))]
    ELSE [err |-> TRUE, entries |-> <<>>]

-----------------------------------------------------------------------------
(* pkg/worktree: enumeration *)

ProtectedNameSet == {Main, Master, Review}

RECURSIVE DirsLoopNoDirCheck(_, _, _)
DirsLoopNoDirCheck(f, gitRoot, entries) ==
    IF entries = <<>> THEN <<>>
    ELSE LET name == Head(entries)
             rest == DirsLoopNoDirCheck(f, gitRoot, Tail(entries))
         IN IF ~HasPrefix(name, <<Dot>>)
            THEN <<Append(gitRoot, name)>> \o rest
            ELSE rest

\* the loop of GetWorktreeDirs over the directory entries
RECURSIVE DirsLoop(_, _, _)
DirsLoop(f, gitRoot, entries) ==
    IF entries = <<>> THEN <<>>
    ELSE LET name == Head(entries)
             rest == DirsLoop(f, gitRoot, Tail(entries))
         IN IF f[Append(gitRoot, name)] = "dir" /\ ~HasPrefix(name, <<Dot>>)
            THEN <<Append(gitRoot, name)>> \o rest
            ELSE rest

GetWorktreeDirs(f, gitRoot) ==
    With(ReadDir(f, gitRoot), LAMBDA rd :
      IF rd.err THEN [err |-> TRUE, dirs |-> <<>>]
      ELSE [err |-> FALSE, dirs |-> DirsLoop(f, gitRoot, rd.entries)])

RECURSIVE FilterLoopNoMaster(_)
FilterLoopNoMaster(dirs) ==
    IF dirs = <<>> THEN <<>>
    ELSE LET name == Base(Head(dirs)) IN
         IF name # Main /\ name # Review
         THEN <<Head(dirs)>> \o FilterLoopNoMaster(Tail(dirs))
         ELSE FilterLoopNoMaster(Tail(dirs))

RECURSIVE FilterLoopKeepsReview(_)
FilterLoopKeepsReview(dirs) ==
    IF dirs = <<>> THEN <<>>
    ELSE LET name == Base(Head(dirs)) IN
         IF name # Main /\ name # Master
         THEN <<Head(dirs)>> \o FilterLoopKeepsReview(Tail(dirs))
         ELSE FilterLoopKeepsReview(Tail(dirs))

\* the loop of GetFilteredWorktrees over the worktree directories
RECURSIVE FilterLoop(_)
FilterLoop(dirs) ==
    IF dirs = <<>> THEN <<>>
    ELSE LET name == Base(Head(dirs)) IN
         IF name # Main /\ name # Master /\ name # Review
         THEN <<Head(dirs)>> \o FilterLoop(Tail(dirs))
         ELSE FilterLoop(Tail(dirs))

GetFilteredWorktrees(f, gitRoot) ==
    With(GetWorktreeDirs(f, gitRoot), LAMBDA all :
      IF all.err THEN [err |-> TRUE, dirs |-> <<>>]
      ELSE [err |-> FALSE, dirs |-> FilterLoop(all.dirs)])

GetHooksDir(gitRoot) == Append(gitRoot, DotHooks)
GetPostAddHook(gitRoot) == Append(GetHooksDir(gitRoot), PostAddSh)

-----------------------------------------------------------------------------
(* The version-control engine.  A repository state g is a record           *)
(* [fs, br, wt]: the file system, the branch references of the bare store  *)
(* and the registered worktrees (path -> branch).  Every primitive takes a *)
(* flag envOk: FALSE is a failure of the environment (a locked worktree, a *)
(* lock file, an I/O error) that leaves the repository as it was.          *)

Git(f, br, wt) == [fs |-> f, br |-> br, wt |-> wt]

Prefixes(p) == {SubSeq(p, 1, k) : k \in 0..Len(p)}

\* git finds the repository of a command by walking up from the working
\* directory to the first directory that holds a .git entry
GitFound(f, c) ==
    /\ IsDir(f, c)
    /\ IsDir(f, Bare)
    /\ \E d \in Prefixes(c) : Exists(f, Append(d, DotGit))

\* git check-ref-format: no empty component, none beginning with a dot
ValidBranchName(b) ==
    With(Split(b, Slash), LAMBDA parts :
      \A i \in 1..Len(parts) : parts[i] # <<>> /\ ~HasPrefix(parts[i], <<Dot>>))

\* a reference cannot be both a file and a directory of references
RefConflict(br, b) ==
    \E e \in br : \/ HasPrefix(e, Append(b, Slash))
                  \/ HasPrefix(b, Append(e, Slash))

\* the worktree path cannot be created: it is a file or a non-empty
\* directory, or a directory on the way to it is a file
PathBlocked(f, c, target) ==
    \/ /\ target \in DOMAIN f
       /\ \/ f[target] # "dir"
          \/ \E q \in DOMAIN f : q # target /\ IsPrefix(target, q)
    \/ \E d \in Prefixes(target) :
          /\ IsPrefix(c, d) /\ d # target
          /\ d \in DOMAIN f /\ f[d] # "dir"

\* the directories down to target and the .git file of the new worktree
MkWorktree(f, target) ==
    With({d \in Prefixes(target) : d # P} \cup {Append(target, DotGit)}, LAMBDA made :
      [p \in (DOMAIN f) \cup made |->
          IF p = Append(target, DotGit) THEN "file"
          ELSE IF p \in DOMAIN f THEN f[p] ELSE "dir"])

\* git worktree add -b <branch> <path> <base>, run in directory c: the
\* branch is created first, the path is validated afterwards
GitWorktreeAddNew(g, c, branch, path, base, envOk) ==
    IF \/ ~envOk
       \/ ~GitFound(g.fs, c)
       \/ ~ValidBranchName(branch)
       \/ branch \in g.br
       \/ RefConflict(g.br, branch)
       \/ base \notin g.br
    THEN [ok |-> FALSE, fs |-> g.fs, br |-> g.br, wt |-> g.wt]
    ELSE With(Join(c, path), LAMBDA target :
         IF PathBlocked(g.fs, c, target)
         THEN [ok |-> FALSE, fs |-> g.fs, br |-> g.br \cup {branch}, wt |-> g.wt]
         ELSE [ok |-> TRUE, fs |-> MkWorktree(g.fs, target),
               br |-> g.br \cup {branch}, wt |-> (target :> branch) @@ g.wt])

\* git worktree add [--force] <path>, run in directory c: the branch is
\* named after the last component of the path; it is checked out if it
\* exists and created from HEAD if not
GitWorktreeAdd(g, c, path, force, envOk) ==
    With(Base(Split(path, Slash)), LAMBDA branch :
    With(Join(c, path), LAMBDA target :
       IF \/ ~envOk
          \/ ~GitFound(g.fs, c)
          \/ ~ValidBranchName(branch)
          \/ (branch \notin g.br /\ RefConflict(g.br, branch))
          \/ (~force /\ \E w \in DOMAIN g.wt : g.wt[w] = branch)
       THEN [ok |-> FALSE, fs |-> g.fs, br |-> g.br, wt |-> g.wt]
       ELSE IF PathBlocked(g.fs, c, target)
       THEN [ok |-> FALSE, fs |-> g.fs, br |-> g.br \cup {branch}, wt |-> g.wt]
       ELSE [ok |-> TRUE, fs |-> MkWorktree(g.fs, target),
             br |-> g.br \cup {branch}, wt |-> (target :> branch) @@ g.wt]))

\* the registered worktree that <name> identifies: the only one whose path
\* ends in the components of name, else the one at the path c/name
IsSuffix(parts, p) ==
    Len(parts) <= Len(p) /\ SubSeq(p, Len(p) - Len(parts) + 1, Len(p)) = parts

FindWorktree(wt, c, name) ==
    With(Split(name, Slash), LAMBDA parts :
    With({w \in DOMAIN wt : IsSuffix(parts, w)}, LAMBDA bySuffix :
       IF Cardinality(bySuffix) = 1 THEN bySuffix
       ELSE {w \in DOMAIN wt : w = Join(c, name)}))

\* git worktree remove <name> --force, run in directory c
GitWorktreeRemove(g, c, name, envOk) ==
    With(IF GitFound(g.fs, c) THEN FindWorktree(g.wt, c, name) ELSE {}, LAMBDA found :
    IF ~envOk \/ found = {}
    THEN [ok |-> FALSE, fs |-> g.fs, br |-> g.br, wt |-> g.wt, removed |-> {}]
    ELSE With(CHOOSE x \in found : TRUE, LAMBDA w :
           [ok |-> TRUE,
            fs |-> [p \in {q \in DOMAIN g.fs : ~IsPrefix(w, q)} |-> g.fs[p]],
            br |-> g.br,
            wt |-> [p \in {q \in DOMAIN g.wt : ~IsPrefix(w, q)} |-> g.wt[p]],
            removed |-> {w}]))

\* go-git PlainOpen(path): the store that path/.git points to, "common" for
\* the bare store, "private" for the administrative directory of a linked
\* worktree (which holds no branch references), "none" if there is none
OpenRepository(g, path) ==
    IF ~IsDir(g.fs, Bare) THEN "none"
    ELSE IF Exists(g.fs, Append(path, DotGit))
         THEN IF path \in DOMAIN g.wt THEN "private" ELSE "common"
         ELSE IF path = Bare THEN "common" ELSE "none"

\* git.DeleteBranch(repoPath, branchName): removing a reference that does
\* not exist is not an error
DeleteBranch(g, repoPath, branchName, envOk) ==
    With(OpenRepository(g, repoPath), LAMBDA repo :
    IF ~envOk \/ repo = "none"
    THEN [ok |-> FALSE, fs |-> g.fs, br |-> g.br, wt |-> g.wt]
    ELSE [ok |-> TRUE, fs |-> g.fs,
          br |-> IF repo = "common" THEN g.br \ {branchName} ELSE g.br,
          wt |-> g.wt])

\* the upward walk of FindGitRoot: the parent of the first directory, from
\* dir upwards, that holds a .git entry
RECURSIVE WalkUp(_, _)
WalkUp(f, dir) ==
    IF Exists(f, Append(dir, DotGit)) THEN [err |-> FALSE, root |-> Dir(dir)]
    ELSE IF dir = P THEN [err |-> TRUE, root |-> NoPath]
    ELSE WalkUp(f, Dir(dir))

\* git.FindGitRoot with working directory c
FindGitRoot(f, c) ==
    IF ~IsDir(f, c) THEN [err |-> TRUE, root |-> NoPath]
    ELSE IF Exists(f, Append(c, DotBare)) THEN [err |-> FALSE, root |-> c]
    ELSE IF ~GitFound(f, c) THEN [err |-> TRUE, root |-> NoPath]
    ELSE WalkUp(f, c)

-----------------------------------------------------------------------------
(* pkg/worktree: the lifecycle operations.  pcwd is the working directory  *)
(* of the process, which os.Chdir changes.                                 *)

Step(step, item, ok, removed) ==
    [step |-> step, item |-> item, ok |-> ok, removed |-> removed]

\* RunPostAddHook: a missing hook file is not an error; hookOk is the exit
\* status of `sh post-add.sh` run in worktreePath
RunPostAddHook(f, gitRoot, worktreePath, hookOk) ==
    IF ~Exists(f, GetPostAddHook(gitRoot))
    THEN [err |-> FALSE, runs |-> <<>>]
    ELSE [err |-> ~hookOk, runs |-> <<worktreePath>>]

AddWorktreeRollsBack(g, gitRoot, branch, base, gitOk, hookOk) ==
    With(IF base = <<>> THEN Main ELSE base, LAMBDA base2 :
    With(GitWorktreeAddNew(g, gitRoot, branch, branch, base2, gitOk), LAMBDA a :
    With(Join(gitRoot, branch), LAMBDA worktreePath :
       IF ~a.ok
       THEN [err |-> TRUE, errKind |-> "worktree-add", g |-> Git(a.fs, a.br, a.wt),
             pcwd |-> gitRoot, hookRuns |-> <<>>,
             steps |-> <<Step("add", worktreePath, FALSE, {})>>]
       ELSE With(RunPostAddHook(a.fs, gitRoot, worktreePath, hookOk), LAMBDA h :
            [err |-> h.err, errKind |-> IF h.err THEN "hook" ELSE "",
             g |-> IF h.err THEN g ELSE Git(a.fs, a.br, a.wt),
             pcwd |-> gitRoot, hookRuns |-> h.runs,
             steps |-> <<Step("add", worktreePath, TRUE, {})>>]))))

\* AddWorktree with a hook that is deleted once it has run
AddWorktreeConsumesHook(g, gitRoot, branch, base, gitOk, hookOk) ==
    With(IF base = <<>> THEN Main ELSE base, LAMBDA base2 :
    With(GitWorktreeAddNew(g, gitRoot, branch, branch, base2, gitOk), LAMBDA a :
    With(Join(gitRoot, branch), LAMBDA worktreePath :
       IF ~a.ok
       THEN [err |-> TRUE, errKind |-> "worktree-add", g |-> Git(a.fs, a.br, a.wt),
             pcwd |-> gitRoot, hookRuns |-> <<>>,
             steps |-> <<Step("add", worktreePath, FALSE, {})>>]
       ELSE With(RunPostAddHook(a.fs, gitRoot, worktreePath, hookOk), LAMBDA h :
            [err |-> h.err, errKind |-> IF h.err THEN "hook" ELSE "",
             g |-> Git([q \in DOMAIN a.fs \ {GetPostAddHook(gitRoot)} |-> a.fs[q]],
                       a.br, a.wt),
             pcwd |-> gitRoot, hookRuns |-> h.runs,
             steps |-> <<Step("add", worktreePath, TRUE, {})>>]))))

\* AddWorktree(branch, base): gitOk and hookOk say whether the environment
\* lets git and the hook succeed
AddWorktree(g, gitRoot, branch, base, gitOk, hookOk) ==
    With(IF base = <<>> THEN Main ELSE base, LAMBDA base2 :
    With(GitWorktreeAddNew(g, gitRoot, branch, branch, base2, gitOk), LAMBDA a :
    With(Join(gitRoot, branch), LAMBDA worktreePath :
       IF ~a.ok
       THEN [err |-> TRUE, errKind |-> "worktree-add", g |-> Git(a.fs, a.br, a.wt),
             pcwd |-> gitRoot, hookRuns |-> <<>>,
             steps |-> <<Step("add", worktreePath, FALSE, {})>>]
       ELSE With(RunPostAddHook(a.fs, gitRoot, worktreePath, hookOk), LAMBDA h :
            [err |-> h.err, errKind |-> IF h.err THEN "hook" ELSE "",
             g |-> Git(a.fs, a.br, a.wt),
             pcwd |-> gitRoot, hookRuns |-> h.runs,
             steps |-> <<Step("add", worktreePath, TRUE, {})>>]))))

RemoveWorktreeDeletesFirst(g, c, gitRoot, worktreePath, rmOk, delOk) ==
    With(Base(worktreePath), LAMBDA worktreeName :
    With(DeleteBranch(g, gitRoot, worktreeName, delOk), LAMBDA d :
       IF ~d.ok
       THEN [err |-> TRUE, errKind |-> "delete", g |-> g,
             steps |-> <<Step("delete", worktreePath, FALSE, {})>>]
       ELSE With(GitWorktreeRemove(Git(d.fs, d.br, d.wt), c, worktreeName, rmOk), LAMBDA r :
            [err |-> ~r.ok, errKind |-> IF r.ok THEN "" ELSE "remove",
             g |-> Git(r.fs, r.br, r.wt),
             steps |-> <<Step("delete", worktreePath, TRUE, {}),
                         Step("remove", worktreePath, r.ok, r.removed)>>])))

\* RemoveWorktree, run with working directory c
RemoveWorktree(g, c, gitRoot, worktreePath, rmOk, delOk) ==
    With(Base(worktreePath), LAMBDA worktreeName :
    With(GitWorktreeRemove(g, c, worktreeName, rmOk), LAMBDA r :
       IF ~r.ok
       THEN [err |-> TRUE, errKind |-> "remove", g |-> g,
             steps |-> <<Step("remove", worktreePath, FALSE, {})>>]
       ELSE With(DeleteBranch(Git(r.fs, r.br, r.wt), gitRoot, worktreeName, delOk), LAMBDA d :
            [err |-> ~d.ok, errKind |-> IF d.ok THEN "" ELSE "delete",
             g |-> Git(d.fs, d.br, d.wt),
             steps |-> <<Step("remove", worktreePath, TRUE, r.removed),
                         Step("delete", worktreePath, d.ok, {})>>])))

\* the loop of ClearWorktrees: failRm and failDel are the items on which
\* the environment makes the worktree removal and the branch deletion fail
RECURSIVE ClearLoop(_, _, _, _, _)
ClearLoop(g, gitRoot, items, failRm, failDel) ==
    IF items = <<>> THEN [g |-> g, steps |-> <<>>]
    ELSE
      With(Base(Head(items)), LAMBDA worktree :
      With(GitWorktreeRemove(g, gitRoot, worktree, Head(items) \notin failRm), LAMBDA r :
        IF ~r.ok
        THEN With(ClearLoop(g, gitRoot, Tail(items), failRm, failDel), LAMBDA rest :
               [g |-> rest.g,
                steps |-> <<Step("remove", Head(items), FALSE, {})>> \o rest.steps])
        ELSE
          With(DeleteBranch(Git(r.fs, r.br, r.wt), gitRoot, worktree,
                            Head(items) \notin failDel), LAMBDA d :
          With(ClearLoop(Git(d.fs, d.br, d.wt), gitRoot, Tail(items), failRm, failDel),
               LAMBDA rest :
               [g |-> rest.g,
                steps |-> <<Step("remove", Head(items), TRUE, r.removed),
                            Step("delete", Head(items), d.ok, {})>> \o rest.steps]))))

\* ClearWorktrees going through the removable worktrees from the last to
\* the first
ClearWorktreesReversed(g, gitRoot, failRm, failDel) ==
    With(GetFilteredWorktrees(g.fs, gitRoot), LAMBDA filtered :
    IF filtered.err
    THEN [err |-> TRUE, g |-> g, steps |-> <<>>, pcwd |-> gitRoot]
    ELSE IF Len(filtered.dirs) = 0
    THEN [err |-> FALSE, g |-> g, steps |-> <<>>, pcwd |-> gitRoot]
    ELSE With([i \in 1..Len(filtered.dirs) |-> filtered.dirs[Len(filtered.dirs) + 1 - i]],
              LAMBDA reversed :
         With(ClearLoop(g, gitRoot, reversed, failRm, failDel), LAMBDA l :
           [err |-> FALSE, g |-> l.g, steps |-> l.steps, pcwd |-> gitRoot])))

ClearWorktrees(g, gitRoot, failRm, failDel) ==
    With(GetFilteredWorktrees(g.fs, gitRoot), LAMBDA filtered :
    IF filtered.err
    THEN [err |-> TRUE, g |-> g, steps |-> <<>>, pcwd |-> gitRoot]
    ELSE IF Len(filtered.dirs) = 0
    THEN [err |-> FALSE, g |-> g, steps |-> <<>>, pcwd |-> gitRoot]
    ELSE With(ClearLoop(g, gitRoot, filtered.dirs, failRm, failDel), LAMBDA l :
           [err |-> FALSE, g |-> l.g, steps |-> l.steps, pcwd |-> gitRoot]))

\* the first result of ClearWorktrees as clearCmd uses it: the directory
\* the command was started in was removed
NeedsChdir(f, c) == ~IsDir(f, c)

\* SwitchWorktree: os.Chdir(worktreePath)
SwitchWorktree(f, worktreePath) == [err |-> ~IsDir(f, worktreePath)]

\* selector.Select: choice is what the user does: SelectError (the selector
\* fails), SelectNone (the user declines) or the index of an option
SelectError == 0 - 1
SelectNone == 0

Select(options, choice) ==
    IF options = <<>> \/ choice = SelectError THEN [err |-> TRUE, selected |-> <<>>]
    ELSE IF choice = SelectNone THEN [err |-> FALSE, selected |-> <<>>]
    ELSE [err |-> FALSE, selected |-> options[choice]]

-----------------------------------------------------------------------------
(* pkg/setup: repository bootstrap.  A bootstrap run is threaded through   *)
(* a record r: err, the repository state st = [fs, br, wt, rem, con], the  *)
(* working directory of the process and the steps taken so far.  A step is *)
(* skipped once r.err holds, as every step of the source returns at the    *)
(* first error.                                                            *)

\* the branch that HEAD of the remote repository names
RemoteDefaultBranch == Main

Https == <<"h", "t", "t", "p", "s", ":", "/", "/">>
DotGitSuffix == <<".", "g", "i", "t">>

\* fmt.Sprintf("https://%s/%s/%s.git", domain, owner, repo)
HttpsURL(domain, owner, repo) ==
    Https \o domain \o <<Slash>> \o owner \o <<Slash>> \o repo \o DotGitSuffix

\* the absolute path of a directory as a string; P is the directory /p
RECURSIVE PathString(_)
PathString(p) ==
    IF p = P THEN <<Slash, "p">>
    ELSE PathString(Dir(p)) \o <<Slash>> \o Base(p)

\* the post-add.sh template rendered with Base and Branch
HookHeader ==
    <<"#!/bin/sh\n\n# Anything here will be ran in the root of a newly created worktree\n">>

RenderHook(base, branch) ==
    HookHeader \o <<"g", "i", "t", " ", "p", "u", "l", "l", " ">> \o base \o <<" ">> \o branch

Put(f, p, v) == (p :> v) @@ f

\* the kind of p after open(p, O_CREATE|O_TRUNC, perm): the permission bits
\* are applied only when the call creates the file
OpenMode(f, p, perm) == IF p \in DOMAIN f THEN f[p] ELSE perm

Began(c, st) == [err |-> FALSE, errKind |-> "", st |-> st, pcwd |-> c, steps |-> <<>>]

Failed(r, kind, path) ==
    [r EXCEPT !.err = TRUE, !.errKind = kind,
              !.steps = Append(r.steps, Step(kind, path, FALSE, {}))]

Done(r, kind, path, st) ==
    [r EXCEPT !.st = st, !.steps = Append(r.steps, Step(kind, path, TRUE, {}))]

\* os.MkdirAll(rel, 0755)
MkdirAll(r, rel, envOk) ==
    IF r.err THEN r
    ELSE With(Join(r.pcwd, rel), LAMBDA dir :
         IF ~envOk \/ rel = <<>> \/ (dir \in DOMAIN r.st.fs /\ r.st.fs[dir] # "dir")
         THEN Failed(r, "mkdir", r.pcwd)
         ELSE Done(r, "mkdir", dir, [r.st EXCEPT !.fs = Put(r.st.fs, dir, "dir")]))

\* os.Chdir(rel)
Chdir(r, rel, envOk) ==
    IF r.err THEN r
    ELSE With(Join(r.pcwd, rel), LAMBDA dir :
         IF ~envOk \/ ~IsDir(r.st.fs, dir)
         THEN Failed(r, "chdir", dir)
         ELSE [Done(r, "chdir", dir, r.st) EXCEPT !.pcwd = dir])

\* git.CloneBare(url, path): a clone into a path that holds a repository
\* fails; a failed clone leaves nothing behind
CloneBare(r, url, path, envOk) ==
    IF r.err THEN r
    ELSE With(Join(r.pcwd, path), LAMBDA dir :
         IF ~envOk \/ Exists(r.st.fs, dir)
         THEN Failed(r, "clone", dir)
         ELSE Done(r, "clone", dir,
                   [r.st EXCEPT !.fs = Put(r.st.fs, dir, "dir"),
                                !.br = {RemoteDefaultBranch},
                                !.rem = (Origin :> url)]))

\* createGitDirFile: fmt.Sprintf("gitdir: %s/.bare", cwd) written to .git
GitDirPrefix == <<"g", "i", "t", "d", "i", "r", ":", " ">>
GitDirContent(c) == GitDirPrefix \o PathString(c) \o <<Slash>> \o DotBare

\* createGitDirFile writing a path relative to the parent directory
createGitDirFileRelative(r, envOk) ==
    IF r.err THEN r
    ELSE LET file == Append(r.pcwd, DotGit) IN
         IF ~envOk \/ (file \in DOMAIN r.st.fs /\ r.st.fs[file] = "dir")
         THEN Failed(r, "gitfile", file)
         ELSE Done(r, "gitfile", file,
                   [r.st EXCEPT !.fs = Put(r.st.fs, file, OpenMode(r.st.fs, file, "file")),
                                !.con = Put(r.st.con, file,
                                            GitDirPrefix \o Base(r.pcwd) \o <<Slash>> \o DotBare)])

createGitDirFile(r, envOk) ==
    IF r.err THEN r
    ELSE LET file == Append(r.pcwd, DotGit) IN
         IF ~envOk \/ (file \in DOMAIN r.st.fs /\ r.st.fs[file] = "dir")
         THEN Failed(r, "gitfile", file)
         ELSE Done(r, "gitfile", file,
                   [r.st EXCEPT !.fs = Put(r.st.fs, file, OpenMode(r.st.fs, file, "file")),
                                !.con = Put(r.st.con, file, GitDirContent(r.pcwd))])

\* git.AddRemote(repoPath, remoteName, url): a duplicate name is an error
AddRemote(r, repoPath, remoteName, url, envOk) ==
    IF r.err THEN r
    ELSE IF ~envOk \/ ~IsDir(r.st.fs, Join(r.pcwd, repoPath)) \/ remoteName \in DOMAIN r.st.rem
         THEN Failed(r, "remote", <<remoteName>>)
         ELSE Done(r, "remote", <<remoteName>>,
                   [r.st EXCEPT !.rem = Put(r.st.rem, remoteName, url)])

\* the bytes of a file that held old after data is written at its start
WriteFrom0(old, data) == data \o SubSeq(old, Len(data) + 1, Len(old))

\* the bytes of p as the open call leaves them: none with O_TRUNC
OpenBytes(con, p, trunc) == IF trunc \/ p \notin DOMAIN con THEN <<>> ELSE con[p]

\* WorktreeManager.CreateHooks(base, branch) with GitRoot gitRoot
CreateHooks(r, gitRoot, base, branch, envOk) ==
    IF r.err THEN r
    ELSE LET hooksDir == GetHooksDir(gitRoot)
             postAddHook == GetPostAddHook(gitRoot)
         IN IF \/ ~envOk
               \/ (hooksDir \in DOMAIN r.st.fs /\ r.st.fs[hooksDir] # "dir")
               \/ (postAddHook \in DOMAIN r.st.fs /\ r.st.fs[postAddHook] = "dir")
            THEN Failed(r, "hooks", postAddHook)
            ELSE Done(r, "hooks", postAddHook,
                      [r.st EXCEPT
                         !.fs = Put(Put(r.st.fs, hooksDir, "dir"), postAddHook,
                                    OpenMode(r.st.fs, postAddHook, "exec")),
                         !.con = Put(r.st.con, postAddHook,
                                     WriteFrom0(OpenBytes(r.st.con, postAddHook, TRUE),
                                                RenderHook(base, branch)))])

\* git.RunGitCommand("worktree", "add", path [, "--force"])
WorktreeAddStep(r, path, force, envOk) ==
    IF r.err THEN r
    ELSE With(GitWorktreeAdd(Git(r.st.fs, r.st.br, r.st.wt), r.pcwd, path, force, envOk),
              LAMBDA a :
         With([r.st EXCEPT !.fs = a.fs, !.br = a.br, !.wt = a.wt], LAMBDA st2 :
         With(Join(r.pcwd, path), LAMBDA worktreePath :
            IF a.ok THEN Done(r, "worktree", worktreePath, st2)
            ELSE [Failed(r, "worktree", worktreePath) EXCEPT !.st = st2])))

\* finishSetup without the review worktree
finishSetupNoReview(r, base, branch, failAt) ==
    LET h == CreateHooks(r, r.pcwd, base, branch, failAt # 7)
    IN WorktreeAddStep(h, branch, FALSE, failAt # 8)

\* finishSetup going on to the review worktree after the base worktree failed
finishSetupContinues(r, base, branch, failAt) ==
    LET h == CreateHooks(r, r.pcwd, base, branch, failAt # 7)
        b == WorktreeAddStep(h, branch, FALSE, failAt # 8)
    IN IF b.err /\ ~h.err
       THEN [WorktreeAddStep([b EXCEPT !.err = FALSE], Review, TRUE, failAt # 9)
                EXCEPT !.err = TRUE]
       ELSE WorktreeAddStep(b, Review, TRUE, failAt # 9)

finishSetup(r, base, branch, failAt) ==
    LET h == CreateHooks(r, r.pcwd, base, branch, failAt # 7)
        b == WorktreeAddStep(h, branch, FALSE, failAt # 8)
    IN WorktreeAddStep(b, Review, TRUE, failAt # 9)

setupDirectCloneGHE(r, rc, failAt) ==
    LET m == MkdirAll(r, rc.RepoName, failAt # 2)
        c == Chdir(m, rc.RepoName, failAt # 3)
        repoURL == HttpsURL(rc.Domain, rc.Org, rc.RepoName)
        b == CloneBare(c, repoURL, DotBare, failAt # 4)
        g == createGitDirFile(b, failAt # 5)
    IN finishSetup(g, Origin, rc.Branch, failAt)

\* setupGHERepo adding the upstream remote after a direct clone too
setupGHERepoAlwaysUpstream(r, rc, account, failAt) ==
    IF failAt = 1 THEN Failed(r, "config", P)
    ELSE LET owner == IF account = <<>> THEN rc.Org ELSE account
             m == MkdirAll(r, rc.RepoName, failAt # 2)
             c == Chdir(m, rc.RepoName, failAt # 3)
             repoURL == HttpsURL(rc.Domain, owner, rc.RepoName)
             b == CloneBare(c, repoURL, DotBare, failAt # 4)
             g == createGitDirFile(b, failAt # 5)
             upstreamURL == HttpsURL(rc.Domain, rc.Org, rc.RepoName)
             u == AddRemote(g, DotBare, Upstream, upstreamURL, failAt # 6)
         IN finishSetup(u, Upstream, rc.Branch, failAt)

\* account is cfg.GetAccount(Domain); failAt = 1 is a failure of
\* config.LoadDefaultConfig
setupGHERepo(r, rc, account, failAt) ==
    IF failAt = 1 THEN Failed(r, "config", P)
    ELSE IF account = <<>> THEN setupDirectCloneGHE(r, rc, failAt)
    ELSE LET m == MkdirAll(r, rc.RepoName, failAt # 2)
             c == Chdir(m, rc.RepoName, failAt # 3)
             repoURL == HttpsURL(rc.Domain, account, rc.RepoName)
             b == CloneBare(c, repoURL, DotBare, failAt # 4)
             g == createGitDirFile(b, failAt # 5)
             upstreamURL == HttpsURL(rc.Domain, rc.Org, rc.RepoName)
             u == AddRemote(g, DotBare, Upstream, upstreamURL, failAt # 6)
         IN finishSetup(u, Upstream, rc.Branch, failAt)

\* setupGitHubRepo without the account requirement
setupGitHubRepoClonesDirectly(r, rc, account, failAt) ==
    IF failAt = 1 THEN Failed(r, "config", P)
    ELSE IF account = <<>> THEN setupDirectCloneGHE(r, rc, failAt)
    ELSE setupGHERepo(r, rc, account, failAt)

\* setupGitHubRepo adding the account remote whatever the account is
setupGitHubRepoAlwaysFork(r, rc, account, failAt) ==
    IF failAt = 1 THEN Failed(r, "config", P)
    ELSE IF account = <<>> THEN Failed(r, "no-account", P)
    ELSE LET m == MkdirAll(r, rc.RepoName, failAt # 2)
             c == Chdir(m, rc.RepoName, failAt # 3)
             originURL == HttpsURL(rc.Domain, rc.Org, rc.RepoName)
             b == CloneBare(c, originURL, DotBare, failAt # 4)
             forkURL == HttpsURL(rc.Domain, account, rc.RepoName)
         IN With(createGitDirFile(b, failAt # 5), LAMBDA g :
              finishSetup(AddRemote(g, DotBare, account, forkURL, failAt # 6),
                          Origin, rc.Branch, failAt))

setupGitHubRepo(r, rc, account, failAt) ==
    IF failAt = 1 THEN Failed(r, "config", P)
    ELSE IF account = <<>> THEN Failed(r, "no-account", P)
    ELSE LET m == MkdirAll(r, rc.RepoName, failAt # 2)
             c == Chdir(m, rc.RepoName, failAt # 3)
             originURL == HttpsURL(rc.Domain, rc.Org, rc.RepoName)
             b == CloneBare(c, originURL, DotBare, failAt # 4)
             forkURL == HttpsURL(rc.Domain, account, rc.RepoName)
         IN With(createGitDirFile(b, failAt # 5), LAMBDA g :
              finishSetup(IF account # rc.Org
                          THEN AddRemote(g, DotBare, account, forkURL, failAt # 6)
                          ELSE g,
                          Origin, rc.Branch, failAt))

SetupRepository(r, rc, account, failAt) ==
    IF IsGitHubEnterprise(rc)
    THEN setupGHERepo(r, rc, account, failAt)
    ELSE setupGitHubRepo(r, rc, account, failAt)

-----------------------------------------------------------------------------
(* The record of the last command *)

NoLast ==
    [op |-> "init", name |-> NoName, base |-> NoName, err |-> FALSE, errKind |-> "",
     out |-> <<>>, gitRoot |-> NoPath, pcwd |-> P,
     preFs |-> NoFiles, preBranches |-> {}, preWts |-> NoFiles,
     hookRuns |-> <<>>, steps |-> <<>>, offered |-> <<>>, res |-> NoPath,
     account |-> NoName]

\* lines of output: informational text, the Error line that Execute prints
\* for a failed command, and the directory-change signal WT_CHDIR:<text>
Info == [stream |-> "stdout", tag |-> "info", text |-> <<>>]
ErrLine == [stream |-> "stderr", tag |-> "error", text |-> <<>>]
Signal(stream, text) == [stream |-> stream, tag |-> "WT_CHDIR", text |-> text]

Cmd(op, name, base) ==
    [NoLast EXCEPT !.op = op, !.name = name, !.base = base, !.pcwd = cwd,
                   !.preFs = fs, !.preBranches = branches, !.preWts = wts]

\* a command that returns an error: Execute prints it and exits with 1
Fail(c, kind, out) ==
    [c EXCEPT !.err = TRUE, !.errKind = kind, !.out = Append(out, ErrLine)]

SetGit(g) == fs' = g.fs /\ branches' = g.br /\ wts' = g.wt

-----------------------------------------------------------------------------
(* The commands.  Every command is a process started in the directory cwd  *)
(* of the shell; the inputs are the arguments, what the user selects and   *)
(* which calls the environment makes fail.                                 *)

\* bounds of the inputs
MaxEnvFail == 1
SetupRepos == {<<"o", "/", "w">>, <<"w">>}
Accounts == {<<>>, <<"u">>}
SetupFailPoints == {0, 7}
AddNames == {NameA, BranchAB, BranchFA, DotH}
AddBases == {Main}
NoArg == NoName
RmArgs == {NameA, Main, BranchFA, DotBare}
SwitchArgs == {NameA, BranchFA}

Init ==
    /\ fs = NoFiles /\ branches = {} /\ wts = NoFiles /\ remotes = NoFiles
    /\ content = NoFiles /\ cwd = P /\ last = NoLast

Same == UNCHANGED <<fs, branches, wts, remotes, content, cwd>>
SameGit == UNCHANGED <<fs, branches, wts>>

\* cmd/setup: setupCmd, started in P; failAt is the step at which the
\* environment fails (0: nowhere)
SetupWith(repos, bases, accounts, failPoints) ==
    /\ cwd = P
    /\ \E repo \in repos, branch \in bases :
         With(Cmd("setup", repo, branch), LAMBDA c :
         With(ParseRepoString(repo, branch), LAMBDA parsed :
            IF parsed.err
            THEN last' = Fail(c, "parse", <<>>) /\ Same
            ELSE \E account \in accounts, failAt \in failPoints :
                   With(SetupRepository(
                          Began(cwd, [fs |-> fs, br |-> branches, wt |-> wts,
                                      rem |-> remotes, con |-> content]),
                          parsed.config, account, failAt), LAMBDA r :
                   With([c EXCEPT !.pcwd = r.pcwd, !.steps = r.steps,
                                  !.res = parsed.config, !.account = account],
                        LAMBDA d :
                      /\ fs' = r.st.fs /\ branches' = r.st.br /\ wts' = r.st.wt
                      /\ remotes' = r.st.rem /\ content' = r.st.con
                      /\ last' = IF r.err THEN Fail(d, r.errKind, <<Info>>)
                                 ELSE [d EXCEPT !.out =
                                         <<Info, Signal("stderr", parsed.config.RepoName)>>]
                      /\ UNCHANGED cwd))))

SetupCmd == SetupWith(SetupRepos, {Main}, Accounts, SetupFailPoints)

\* cmd/add: addCmd
AddCmd ==
    /\ UNCHANGED <<remotes, content, cwd>>
    /\ With(FindGitRoot(fs, cwd), LAMBDA root :
        \E branch \in AddNames, base \in AddBases :
          With(Cmd("add", branch, base), LAMBDA c :
          IF root.err THEN last' = Fail(c, "root", <<>>) /\ SameGit
          ELSE \E gitOk \in BOOLEAN, hookOk \in BOOLEAN :
                 With(AddWorktree(Git(fs, branches, wts), root.root, branch, base,
                                  gitOk, hookOk), LAMBDA a :
                 With([c EXCEPT !.gitRoot = root.root, !.pcwd = a.pcwd,
                                !.hookRuns = a.hookRuns, !.steps = a.steps], LAMBDA d :
                    /\ SetGit(a.g)
                    /\ last' = IF a.err THEN Fail(d, a.errKind, <<Info>>)
                               ELSE [d EXCEPT !.out =
                                       <<Info, Signal("stdout",
                                           PathString(root.root) \o <<Slash>> \o branch)>>]))))

\* the first directory of dirs whose base name is name, "" if there is none
RECURSIVE FindByName(_, _)
FindByName(dirs, name) ==
    IF dirs = <<>> THEN <<>>
    ELSE IF Base(Head(dirs)) = name THEN Head(dirs)
    ELSE FindByName(Tail(dirs), name)

\* the end of rmCmd: RemoveWorktree of the selected worktree
RmSelected(d, gitRoot, selectedWorktree) ==
    \E rmOk \in BOOLEAN, delOk \in BOOLEAN :
      With(RemoveWorktree(Git(fs, branches, wts), cwd, gitRoot, selectedWorktree,
                          rmOk, delOk), LAMBDA r :
      With([d EXCEPT !.steps = r.steps, !.res = selectedWorktree], LAMBDA e :
         /\ SetGit(r.g)
         /\ last' = IF r.err THEN Fail(e, r.errKind, <<Info>>)
                    ELSE [e EXCEPT !.out = <<Info>>]))

\* rmCmd with a worktree name that looks the name up among the worktrees
\* offered for interactive removal
RmNamedFiltered ==
    /\ UNCHANGED <<remotes, content, cwd>>
    /\ With(FindGitRoot(fs, cwd), LAMBDA root :
        With(GetFilteredWorktrees(fs, root.root), LAMBDA allWorktrees :
          \E worktreeName \in RmArgs :
             With(Cmd("rm", worktreeName, NoName), LAMBDA c :
             With([c EXCEPT !.gitRoot = root.root], LAMBDA d :
             With(FindByName(allWorktrees.dirs, worktreeName), LAMBDA selectedWorktree :
                IF root.err THEN last' = Fail(c, "root", <<>>) /\ SameGit
                ELSE IF allWorktrees.err THEN last' = Fail(d, "list", <<>>) /\ SameGit
                ELSE IF selectedWorktree = <<>> THEN last' = Fail(d, "notfound", <<>>) /\ SameGit
                ELSE RmSelected(d, root.root, selectedWorktree))))))

\* cmd/rm: rmCmd with a worktree name
RmNamed ==
    /\ UNCHANGED <<remotes, content, cwd>>
    /\ With(FindGitRoot(fs, cwd), LAMBDA root :
        With(GetWorktreeDirs(fs, root.root), LAMBDA allWorktrees :
          \E worktreeName \in RmArgs :
             With(Cmd("rm", worktreeName, NoName), LAMBDA c :
             With([c EXCEPT !.gitRoot = root.root], LAMBDA d :
             With(FindByName(allWorktrees.dirs, worktreeName), LAMBDA selectedWorktree :
                IF root.err THEN last' = Fail(c, "root", <<>>) /\ SameGit
                ELSE IF allWorktrees.err THEN last' = Fail(d, "list", <<>>) /\ SameGit
                ELSE IF selectedWorktree = <<>> THEN last' = Fail(d, "notfound", <<>>) /\ SameGit
                ELSE RmSelected(d, root.root, selectedWorktree))))))

\* cmd/rm: rmCmd without a name, the worktree is selected interactively
RmInteractive ==
    /\ UNCHANGED <<remotes, content, cwd>>
    /\ With(FindGitRoot(fs, cwd), LAMBDA root :
        With(GetFilteredWorktrees(fs, root.root), LAMBDA filteredWorktrees :
        With(Cmd("rm", NoArg, NoName), LAMBDA c :
        With([c EXCEPT !.gitRoot = root.root, !.offered = filteredWorktrees.dirs], LAMBDA d :
           IF root.err THEN last' = Fail(c, "root", <<>>) /\ SameGit
           ELSE IF filteredWorktrees.err THEN last' = Fail(d, "list", <<>>) /\ SameGit
           ELSE IF Len(filteredWorktrees.dirs) = 0 THEN last' = [d EXCEPT !.out = <<Info>>] /\ SameGit
           ELSE \E choice \in SelectError..Len(filteredWorktrees.dirs) :
                  With(Select(filteredWorktrees.dirs, choice), LAMBDA sel :
                  IF sel.err THEN last' = Fail(d, "select", <<>>) /\ SameGit
                  ELSE IF sel.selected = <<>> THEN last' = [d EXCEPT !.out = <<Info>>] /\ SameGit
                  ELSE RmSelected(d, root.root, sel.selected))))))

SubsetsUpTo(S, n) == {T \in SUBSET S : Cardinality(T) <= n}
Range(q) == {q[i] : i \in 1..Len(q)}

\* cmd/clear: clearCmd
ClearCmd ==
    /\ UNCHANGED <<remotes, content, cwd>>
    /\ With(Cmd("clear", NoName, NoName), LAMBDA c :
        With(FindGitRoot(fs, cwd), LAMBDA root :
        With(GetFilteredWorktrees(fs, root.root), LAMBDA filteredWorktrees :
        With([c EXCEPT !.gitRoot = root.root, !.offered = filteredWorktrees.dirs], LAMBDA d :
           IF root.err THEN last' = Fail(c, "root", <<>>) /\ SameGit
           ELSE IF filteredWorktrees.err THEN last' = Fail(d, "list", <<>>) /\ SameGit
           ELSE IF Len(filteredWorktrees.dirs) = 0 THEN last' = [d EXCEPT !.out = <<Info>>] /\ SameGit
           ELSE \E failRm \in SubsetsUpTo(Range(filteredWorktrees.dirs), MaxEnvFail),
                   failDel \in SubsetsUpTo(Range(filteredWorktrees.dirs), MaxEnvFail) :
                  With(ClearWorktrees(Git(fs, branches, wts), root.root, failRm, failDel),
                       LAMBDA r :
                  With([d EXCEPT !.steps = r.steps, !.pcwd = r.pcwd], LAMBDA e :
                     /\ SetGit(r.g)
                     /\ last' = IF r.err THEN Fail(e, "list", <<Info>>)
                                ELSE IF NeedsChdir(r.g.fs, cwd)
                                THEN [e EXCEPT !.out =
                                        <<Info, Info, Signal("stderr", PathString(root.root))>>]
                                ELSE [e EXCEPT !.out = <<Info, Info>>]))))))

SwitchSelectedNoSignal(d, selectedWorktree) ==
    IF SwitchWorktree(fs, selectedWorktree).err THEN Fail(d, "chdir", <<>>)
    ELSE [d EXCEPT !.pcwd = selectedWorktree, !.res = selectedWorktree,
                   !.out = <<Info>>]

\* the end of switchCmd: SwitchWorktree and the signal
SwitchSelected(d, selectedWorktree) ==
    IF SwitchWorktree(fs, selectedWorktree).err THEN Fail(d, "chdir", <<>>)
    ELSE [d EXCEPT !.pcwd = selectedWorktree, !.res = selectedWorktree,
                   !.out = <<Info, Signal("stdout", PathString(selectedWorktree))>>]

\* cmd/switch: switchCmd with a worktree name
SwitchNamed ==
    /\ Same
    /\ With(FindGitRoot(fs, cwd), LAMBDA root :
        With(GetWorktreeDirs(fs, root.root), LAMBDA worktreeDirs :
           \E targetWorktree \in SwitchArgs :
                With(Cmd("switch", targetWorktree, NoName), LAMBDA c :
                With([c EXCEPT !.gitRoot = root.root], LAMBDA d :
                With(FindByName(worktreeDirs.dirs, targetWorktree), LAMBDA selectedWorktree :
                   last' =
                     IF root.err THEN Fail(c, "root", <<>>)
                     ELSE IF worktreeDirs.err THEN Fail(d, "list", <<>>)
                     ELSE IF Len(worktreeDirs.dirs) = 0 THEN [d EXCEPT !.out = <<Info>>]
                     ELSE IF selectedWorktree = <<>> THEN Fail(d, "notfound", <<>>)
                     ELSE SwitchSelected(d, selectedWorktree))))))

\* cmd/switch: switchCmd without a name, the worktree is selected interactively
SwitchInteractive ==
    /\ Same
    /\ With(FindGitRoot(fs, cwd), LAMBDA root :
        With(GetWorktreeDirs(fs, root.root), LAMBDA worktreeDirs :
        With(Cmd("switch", NoArg, NoName), LAMBDA c :
        With([c EXCEPT !.gitRoot = root.root, !.offered = worktreeDirs.dirs], LAMBDA d :
           IF root.err THEN last' = Fail(c, "root", <<>>)
              ELSE IF worktreeDirs.err THEN last' = Fail(d, "list", <<>>)
              ELSE IF Len(worktreeDirs.dirs) = 0 THEN last' = [d EXCEPT !.out = <<Info>>]
              ELSE \E choice \in SelectError..Len(worktreeDirs.dirs) :
                     With(Select(worktreeDirs.dirs, choice), LAMBDA sel :
                     last' = IF sel.err THEN Fail(d, "select", <<>>)
                             ELSE IF sel.selected = <<>> THEN [d EXCEPT !.out = <<Info>>]
                             ELSE SwitchSelected(d, sel.selected))))))

\* the user changes the directory of the shell
CdTargets == {P, Root, GetHooksDir(Root)} \cup DOMAIN wts \cup {Dir(w) : w \in DOMAIN wts}

Cd ==
    /\ \E d \in CdTargets : d # cwd /\ IsDir(fs, d) /\ cwd' = d
    /\ last' = [NoLast EXCEPT !.op = "cd"]
    /\ UNCHANGED <<fs, branches, wts, remotes, content>>

Next ==
    \/ SetupCmd \/ AddCmd \/ RmNamed \/ RmInteractive \/ ClearCmd
    \/ SwitchNamed \/ SwitchInteractive \/ Cd

Spec == Init /\ [][Next]_vars

-----------------------------------------------------------------------------
(* ParseRepoString applied to every identifier of bounded length *)

RepoChars == {"o", "w", Slash}

RECURSIVE StringsUpTo(_)
StringsUpTo(n) ==
    IF n = 0 THEN {<<>>}
    ELSE LET shorter == StringsUpTo(n - 1) IN
         shorter \cup {Append(s, c) : s \in shorter, c \in RepoChars}

InitParse ==
    /\ fs = NoFiles /\ branches = {} /\ wts = NoFiles /\ remotes = NoFiles
    /\ content = NoFiles /\ cwd = P
    /\ \E repo \in StringsUpTo(MaxRepoLen), b \in {Main, Master} :
          last = [NoLast EXCEPT !.name = repo, !.base = b]

Parse ==
    /\ last.op = "init"
    /\ last' = [last EXCEPT !.op = "parse",
                            !.res = ParseRepoString(last.name, last.base)]
    /\ UNCHANGED <<fs, branches, wts, remotes, content, cwd>>

NextParse == Parse

SpecParse == InitParse /\ [][NextParse]_vars

-----------------------------------------------------------------------------
(* GetWorktreeDirs and GetFilteredWorktrees applied to every directory     *)
(* content over a set of entry names                                       *)

ListNames == {Main, Master, Review, DotBare, DotGit, DotH, NameA, NameF}

InitList ==
    /\ branches = {} /\ wts = NoFiles /\ remotes = NoFiles
    /\ content = NoFiles /\ cwd = P /\ last = NoLast
    /\ \/ fs = NoFiles
       \/ fs = [p \in {Root} |-> "file"]
       \/ \E kind \in [ListNames -> {"none", "dir", "file"}] :
             fs = [p \in {Root} \cup {Append(Root, n) : n \in {m \in ListNames : kind[m] # "none"}}
                     |-> IF p = Root THEN "dir" ELSE kind[Base(p)]]

ListAll ==
    /\ last' = [NoLast EXCEPT !.op = "listAll", !.gitRoot = Root,
                              !.res = GetWorktreeDirs(fs, Root)]
    /\ UNCHANGED <<fs, branches, wts, remotes, content, cwd>>

ListRemovable ==
    /\ last' = [NoLast EXCEPT !.op = "listRemovable", !.gitRoot = Root,
                              !.res = GetFilteredWorktrees(fs, Root)]
    /\ UNCHANGED <<fs, branches, wts, remotes, content, cwd>>

NextList == ListAll \/ ListRemovable

SpecList == InitList /\ [][NextList]_vars

-----------------------------------------------------------------------------
(* The setup command on the default host and on an enterprise host, with   *)
(* every account setting and a failure of the environment at every step    *)

Enterprise == <<"e">>
OrgO == <<"o">>
AccountU == <<"u">>
AllSetupRepos == {<<"o", "/", "w">>, <<"e", "/", "o", "/", "w">>}
AllAccounts == {<<>>, AccountU, OrgO}
\* steps of SetupRepository: 1 load config, 2 mkdir, 3 chdir, 4 clone,
\* 5 pointer file, 6 remote add, 7 hooks, 8 base worktree, 9 review worktree
LastSetupStep == 9
AllFailPoints == 0..LastSetupStep

\* values of the --base flag
SetupBases == {Main, Master}

SetupAll == SetupWith(AllSetupRepos, SetupBases, AllAccounts, AllFailPoints)

NextSetup == SetupAll

SpecSetup == Init /\ [][NextSetup]_vars

-----------------------------------------------------------------------------
(* CreateHooks applied, any number of times, to a root whose .hooks        *)
(* directory and hook file are absent or were put there by the user        *)

HookBases == {Origin, Upstream}
HookBranches == {Main, Master, NameA}
\* what a hook file written by hand holds: less and more than a rendered hook
UserHooks == {<<"l", "s">>, RenderHook(Upstream, Master) \o <<NewLine, "l", "s">>}

HooksFs(dirKind, hookKind) ==
    [p \in {Root} \cup (IF dirKind = "none" THEN {} ELSE {GetHooksDir(Root)})
               \cup (IF hookKind = "none" THEN {} ELSE {GetPostAddHook(Root)}) |->
        IF p = Root THEN "dir" ELSE IF p = GetHooksDir(Root) THEN dirKind ELSE hookKind]

InitHooks ==
    /\ branches = {} /\ wts = NoFiles /\ remotes = NoFiles /\ cwd = Root /\ last = NoLast
    /\ \/ \E dirKind \in {"none", "dir", "file"} :
             fs = HooksFs(dirKind, "none") /\ content = NoFiles
       \/ fs = HooksFs("dir", "dir") /\ content = NoFiles
       \/ \E hookKind \in {"file", "exec"}, bytes \in UserHooks :
             /\ fs = HooksFs("dir", hookKind)
             /\ content = [p \in {GetPostAddHook(Root)} |-> bytes]

CreateHooksCall ==
    /\ UNCHANGED <<branches, wts, remotes, cwd>>
    /\ \E base \in HookBases, branch \in HookBranches, envOk \in BOOLEAN :
         With(CreateHooks(Began(cwd, [fs |-> fs, br |-> branches, wt |-> wts,
                                      rem |-> remotes, con |-> content]),
                          Root, base, branch, envOk), LAMBDA r :
            /\ fs' = r.st.fs /\ content' = r.st.con
            /\ last' = [NoLast EXCEPT !.op = "hooks", !.name = branch, !.base = base,
                                      !.err = r.err, !.gitRoot = Root, !.preFs = fs,
                                      !.steps = r.steps])

NextHooks == CreateHooksCall

SpecHooks == InitHooks /\ [][NextHooks]_vars

-----------------------------------------------------------------------------
(* CloneBare with SSH authentication, applied to every state of the agent  *)
(* socket, the home directory and the three key files                      *)

GitAt == <<"g", "i", "t", "@">>
\* fmt.Sprintf("git@%s:%s/%s.git", domain, org, repo)
SshURL(domain, org, repo) ==
    GitAt \o domain \o <<":">> \o org \o <<Slash>> \o repo \o DotGitSuffix

\* the key files in another order
KeyPathsEcdsaFirst == <<"id_ecdsa", "id_rsa", "id_ed25519">>

\* the key files in the order of keyPaths
KeyPaths == <<"id_rsa", "id_ed25519", "id_ecdsa">>

\* env.sock: SSH_AUTH_SOCK unset, not reachable, an agent without keys, an
\* agent with keys; env.auth1, env.auth2: whether the first and the second
\* gitssh.NewSSHAgentAuth succeed; env.home: whether os.UserHomeDir does;
\* env.key[k]: the key file k is missing, cannot be loaded, or is good
SshEnvs ==
    [sock : {"unset", "unreachable", "nokeys", "keys"}, auth1 : BOOLEAN, auth2 : BOOLEAN,
     home : BOOLEAN, key : [{"id_rsa", "id_ed25519", "id_ecdsa"} -> {"missing", "bad", "good"}]]

Tried(a, method) == [a EXCEPT !.tried = Append(a.tried, method)]
Found(a, method) == [Tried(a, method) EXCEPT !.err = FALSE, !.errKind = "", !.method = method]

RECURSIVE KeyLoop(_, _, _)
KeyLoop(env, a, i) ==
    IF i > Len(KeyPaths)
    THEN [a EXCEPT !.err = TRUE, !.errKind = "no-ssh-auth"]
    ELSE IF env.key[KeyPaths[i]] = "missing" THEN KeyLoop(env, Tried(a, KeyPaths[i]), i + 1)
    ELSE IF env.key[KeyPaths[i]] = "good" THEN Found(a, KeyPaths[i])
    ELSE KeyLoop(env, Tried(a, KeyPaths[i]), i + 1)

NoAuth == [err |-> TRUE, errKind |-> "", method |-> "", tried |-> <<>>]

getSSHAuth(env) ==
    With(IF env.sock = "unset" THEN NoAuth ELSE Tried(NoAuth, "sock-agent"), LAMBDA a :
       IF env.sock = "keys" /\ env.auth1 THEN Found(NoAuth, "sock-agent")
       ELSE IF env.auth2 THEN Found(a, "agent")
       ELSE IF ~env.home THEN [Tried(a, "agent") EXCEPT !.errKind = "home"]
       ELSE KeyLoop(env, Tried(a, "agent"), 1))

\* CloneBare(url, path): plainClone is what git.PlainClone returns when it
\* is called; clones counts the calls
CloneBareSSH(url, env, plainClone) ==
    With(IF HasPrefix(url, GitAt) THEN getSSHAuth(env)
         ELSE [NoAuth EXCEPT !.err = FALSE], LAMBDA auth :
       IF auth.err
       THEN [err |-> TRUE, errKind |-> auth.errKind, auth |-> auth, clones |-> 0]
       ELSE [err |-> plainClone # "ok",
             errKind |-> IF plainClone = "ok" THEN "" ELSE plainClone,
             auth |-> auth, clones |-> 1])

CloneURLs == {SshURL(GitHubCom, OrgO, RepoW), HttpsURL(GitHubCom, OrgO, RepoW)}

InitAuth ==
    /\ fs = NoFiles /\ branches = {} /\ wts = NoFiles /\ remotes = NoFiles
    /\ content = NoFiles /\ cwd = P
    /\ \E env \in SshEnvs, url \in CloneURLs,
          plainClone \in {"ok", "clone", "knownhosts: key mismatch"} :
          last = [NoLast EXCEPT !.name = url, !.errKind = plainClone, !.res = env]

CloneBareCall ==
    /\ last.op = "init"
    /\ With(CloneBareSSH(last.name, last.res, last.errKind), LAMBDA c :
          /\ last' = [last EXCEPT !.op = "clone", !.err = c.err, !.errKind = c.errKind,
                                  !.res = [env |-> last.res, auth |-> c.auth,
                                           clones |-> c.clones]]
          /\ fs' = IF c.clones = 1 /\ ~c.err THEN Put(fs, Bare, "dir") ELSE fs)
    /\ UNCHANGED <<branches, wts, remotes, content, cwd>>

NextAuth == CloneBareCall

SpecAuth == InitAuth /\ [][NextAuth]_vars

-----------------------------------------------------------------------------
(* GenerateRepositoryURL applied to every configuration of two hosts       *)

CloneMethodHTTP == "http"
CloneMethodSSH == "ssh"
\* values of clone_method in the configuration file: the two methods, the
\* field left out, and a value that is neither method
CloneMethods == {CloneMethodHTTP, CloneMethodSSH, "", "scp"}
HostConfig(account, method) == [Account |-> account, CloneMethod |-> method]
HostConfigs == {HostConfig(a, m) : a \in {<<>>, AccountU}, m \in CloneMethods}
ConfigDomains == {GitHubCom, Enterprise}
\* a Config: Hosts maps the domains that have an entry to their HostConfig
Configs ==
    {[Hosts |-> h] : h \in UNION {[D -> HostConfigs] : D \in SUBSET ConfigDomains}}

GetHostConfig(c, domain) ==
    With(IF domain = <<>> THEN GitHubCom ELSE domain, LAMBDA d :
       IF d \in DOMAIN c.Hosts THEN c.Hosts[d] ELSE HostConfig(<<>>, CloneMethodHTTP))

GetCloneMethod(c, domain) ==
    With(GetHostConfig(c, domain), LAMBDA config :
       IF config.CloneMethod = "" THEN CloneMethodHTTP ELSE config.CloneMethod)

\* GenerateRepositoryURL without the ssh case
GenerateRepositoryURLHttpsOnly(c, domain, org, repo) == HttpsURL(domain, org, repo)

GenerateRepositoryURL(c, domain, org, repo) ==
    IF GetCloneMethod(c, domain) = CloneMethodSSH
    THEN SshURL(domain, org, repo)
    ELSE HttpsURL(domain, org, repo)

URLDomains == {GitHubCom, Enterprise, <<>>}
URLOrgs == {OrgO, AccountU}
URLRepos == {RepoW, NameA}

InitURL ==
    /\ fs = NoFiles /\ branches = {} /\ wts = NoFiles /\ remotes = NoFiles
    /\ content = NoFiles /\ cwd = P
    /\ \E c \in Configs, domain \in URLDomains, org \in URLOrgs, repo \in URLRepos :
          last = [NoLast EXCEPT !.res = [cfg |-> c, domain |-> domain, org |-> org,
                                         repo |-> repo, url |-> NoName]]

GenerateURL ==
    /\ last.op = "init"
    /\ last' = [last EXCEPT !.op = "url",
                            !.res.url = GenerateRepositoryURL(last.res.cfg, last.res.domain,
                                                             last.res.org, last.res.repo)]
    /\ UNCHANGED <<fs, branches, wts, remotes, content, cwd>>

NextURL == GenerateURL

SpecURL == InitURL /\ [][NextURL]_vars

-----------------------------------------------------------------------------
(* The configuration path that a command run through RootCmd resolves,     *)
(* for every setting of the --config flag, WORKTREE_CONFIG and the home     *)
(* directory                                                               *)

\* the flag is not on the command line; the variable is not set
NotGiven == <<"-">>
EnvUnset == <<>>
\* os.UserHomeDir fails
NoHome == <<>>
HomeDirs == {NoHome, <<"/", "h">>, <<"/", "r">>}
FlagPaths == {<<"/", "f">>, <<"/", "g">>, <<"/", "h">>}
EnvPaths == {EnvUnset, <<"/", "e">>, <<"/", "g">>, <<"/", "h">>}
RootCommands == {"setup", "add", "rm", "clear", "switch", "config"}

\* config.GetDefaultConfigPath through getDefaultConfigPath: the empty
\* string when the home directory is unknown
getDefaultConfigPath(home) ==
    IF home = NoHome THEN <<>> ELSE home \o <<"/.config/worktree/settings.yaml">>

\* cmd.Flags().GetString("config"): the value on the command line, or the
\* default that init registered for the flag
GetStringConfig(flag, home) ==
    IF flag = NotGiven THEN getDefaultConfigPath(home) ELSE flag

\* RootCmd.PersistentPreRun: the value of globalConfigPath after it
PersistentPreRun(globalConfigPath, flag, home) ==
    With(GetStringConfig(flag, home), LAMBDA configPath :
       IF configPath # <<>> THEN configPath ELSE globalConfigPath)

getConfigPath(globalConfigPath, env, home) ==
    IF globalConfigPath # <<>> THEN globalConfigPath
    ELSE IF env # <<>> THEN env
    ELSE getDefaultConfigPath(home)

InitConfig ==
    /\ fs = NoFiles /\ branches = {} /\ wts = NoFiles /\ remotes = NoFiles
    /\ content = NoFiles /\ cwd = P
    /\ \E command \in RootCommands, flag \in {NotGiven} \cup FlagPaths,
          env \in EnvPaths, home \in HomeDirs :
          last = [NoLast EXCEPT !.errKind = command,
                                !.res = [flag |-> flag, env |-> env, home |-> home,
                                         path |-> NoPath]]

\* a process: globalConfigPath starts empty, PersistentPreRun runs before the
\* command, the command calls getConfigPath
RunRootCmd ==
    /\ last.op = "init"
    /\ last' = [last EXCEPT !.op = "root",
                  !.res.path = getConfigPath(
                                  PersistentPreRun(<<>>, last.res.flag, last.res.home),
                                  last.res.env, last.res.home)]
    /\ UNCHANGED <<fs, branches, wts, remotes, content, cwd>>

NextConfig == RunRootCmd

SpecConfig == InitConfig /\ [][NextConfig]_vars

-----------------------------------------------------------------------------
(* ClearWorktrees called on bootstrapped roots with every set of           *)
(* protected worktrees, with and without removable ones, from every        *)
(* directory of the root                                                   *)

\* the root after setup, before any worktree is added
BareLayout ==
    [p \in {Root, Bare, Append(Root, DotGit), GetHooksDir(Root), GetPostAddHook(Root)} |->
        IF p = Append(Root, DotGit) THEN "file"
        ELSE IF p = GetPostAddHook(Root) THEN "exec" ELSE "dir"]

RECURSIVE LayoutWith(_, _)
LayoutWith(f, names) ==
    IF names = {} THEN f
    ELSE With(CHOOSE n \in names : TRUE, LAMBDA n :
            LayoutWith(MkWorktree(f, Append(Root, n)), names \ {n}))

ClearProtected == {Main, Master, Review}
ClearRemovable == {NameA, NameF}

InitClear ==
    /\ remotes = NoFiles /\ content = NoFiles /\ last = NoLast
    /\ \E names \in SUBSET (ClearProtected \cup ClearRemovable) :
          /\ fs = LayoutWith(BareLayout, names)
          /\ wts = [w \in {Append(Root, n) : n \in names} |-> Base(w)]
          /\ branches = names \cup {Main}
          /\ cwd \in {Root, GetHooksDir(Root)} \cup {Append(Root, n) : n \in names}

\* a call of wm.ClearWorktrees() with GitRoot the root, in a process whose
\* working directory is cwd
ClearWorktreesCall ==
    /\ UNCHANGED <<remotes, content>>
    /\ With(GetFilteredWorktrees(fs, Root), LAMBDA filtered :
       \E failRm \in SubsetsUpTo(Range(filtered.dirs), MaxEnvFail),
          failDel \in SubsetsUpTo(Range(filtered.dirs), MaxEnvFail) :
          With(ClearWorktrees(Git(fs, branches, wts), Root, failRm, failDel), LAMBDA r :
             /\ SetGit(r.g)
             /\ cwd' = r.pcwd
             /\ last' = [Cmd("ClearWorktrees", NoName, NoName) EXCEPT
                            !.gitRoot = Root, !.err = r.err, !.steps = r.steps,
                            !.offered = filtered.dirs]))

NextClear == ClearWorktreesCall

SpecClear == InitClear /\ [][NextClear]_vars

-----------------------------------------------------------------------------
(* The shell wrapper functions wt and worktree applied to every captured   *)
(* output of bounded length                                                *)

\* most lines a wrapped command prints
MaxWrapLines == 2

CmdAdd == <<"a", "d", "d">>
CmdSwitch == <<"s", "w", "i", "t", "c", "h">>
CmdSw == <<"s", "w">>
CmdClear == <<"c", "l", "e", "a", "r">>

\* the directory that a path string names for a shell whose directory is c;
\* nothing outside /p exists
ResolvePath(c, text) ==
    With(Split(text, Slash), LAMBDA parts :
       IF parts[1] # <<>> THEN [known |-> TRUE, path |-> c \o parts]
       ELSE IF Len(parts) >= 2 /\ parts[2] = <<"p">>
            THEN [known |-> TRUE, path |-> SubSeq(parts, 3, Len(parts))]
            ELSE [known |-> FALSE, path |-> NoPath])

\* [[ -d text ]]
TestD(f, c, text) ==
    With(ResolvePath(c, text), LAMBDA r : r.known /\ IsDir(f, r.path))

\* grep "^WT_CHDIR:" | sed 's/^WT_CHDIR://' over the captured lines: the
\* texts of the matching lines, one per line
RECURSIVE GrepSed(_)
GrepSed(lines) ==
    IF lines = <<>> THEN <<>>
    ELSE With(GrepSed(Tail(lines)), LAMBDA rest :
            IF Head(lines).tag # "WT_CHDIR" THEN rest
            ELSE IF rest = <<>> THEN Head(lines).text
            ELSE Head(lines).text \o <<NewLine>> \o rest)

OnStream(lines, streams) == SelectSeq(lines, LAMBDA l : l.stream \in streams)

Warning == [stream |-> "stdout", tag |-> "warning", text |-> <<>>]

\* the part the two wrappers share: captured is what the wrapper scans,
\* cdOk whether the cd builtin succeeds on a directory
WrapperBody(f, c, cmd, out, captured, exitCode, cdOk) ==
    IF cmd \in {CmdAdd, CmdSwitch, CmdSw}
    THEN With(GrepSed(captured), LAMBDA target_dir :
            IF target_dir # <<>> /\ TestD(f, c, target_dir)
            THEN IF cdOk
                 THEN [cwd |-> ResolvePath(c, target_dir).path, shown |-> out,
                       ret |-> exitCode]
                 ELSE [cwd |-> c, shown |-> Append(out, Warning), ret |-> exitCode]
            ELSE [cwd |-> c, shown |-> out, ret |-> exitCode])
    ELSE [cwd |-> c, shown |-> out, ret |-> exitCode]

\* wt(): output=$(command wt "$@" 2>&1) captures both streams
wt(f, c, cmd, out, exitCode, cdOk) ==
    WrapperBody(f, c, cmd, out, out, exitCode, cdOk)

\* worktree(): 2> >(tee "$temp_file" >&2) captures the error stream
worktree(f, c, cmd, out, exitCode, cdOk) ==
    WrapperBody(f, c, cmd, out, OnStream(out, {"stderr"}), exitCode, cdOk)

WrapFs ==
    [p \in {Root, Append(Root, NameA), Append(Root, DotGit)} |->
        IF p = Append(Root, DotGit) THEN "file" ELSE "dir"]

WrapTexts ==
    {PathString(Append(Root, NameA)), PathString(Append(Root, NameF)),
     PathString(Append(Root, DotGit)), RepoW, <<>>}

WrapLines ==
    {Info, ErrLine} \cup {Signal(s, t) : s \in {"stdout", "stderr"}, t \in WrapTexts}

RECURSIVE LinesUpTo(_)
LinesUpTo(n) ==
    IF n = 0 THEN {<<>>}
    ELSE With(LinesUpTo(n - 1), LAMBDA shorter :
            shorter \cup {Append(s, l) : s \in shorter, l \in WrapLines})

InitWrap ==
    /\ fs = WrapFs /\ branches = {} /\ wts = NoFiles /\ remotes = NoFiles
    /\ content = NoFiles /\ cwd \in {P, Root}
    /\ \E cmd \in {CmdAdd, CmdSwitch, CmdSw, CmdClear}, out \in LinesUpTo(MaxWrapLines),
          failed \in BOOLEAN :
          last = [NoLast EXCEPT !.name = cmd, !.out = out, !.err = failed, !.pcwd = cwd]

ExitCode(failed) == IF failed THEN 1 ELSE 0

RunWith(op, r, cdOk) ==
    /\ cwd' = r.cwd
    /\ last' = [last EXCEPT !.op = op, !.res = [shown |-> r.shown, ret |-> r.ret,
                                                 cdOk |-> cdOk]]
    /\ UNCHANGED <<fs, branches, wts, remotes, content>>

RunWt ==
    /\ last.op = "init"
    /\ \E cdOk \in BOOLEAN :
          RunWith("wt", wt(fs, cwd, last.name, last.out, ExitCode(last.err), cdOk), cdOk)

RunWorktree ==
    /\ last.op = "init"
    /\ \E cdOk \in BOOLEAN :
          RunWith("worktree",
                  worktree(fs, cwd, last.name, last.out, ExitCode(last.err), cdOk), cdOk)

NextWrap == RunWt \/ RunWorktree

SpecWrap == InitWrap /\ [][NextWrap]_vars

-----------------------------------------------------------------------------
(* Claims about the pure functions *)

SlashCount(s) == Cardinality({i \in 1..Len(s) : s[i] = Slash})
NoSlash(s) == SlashCount(s) = 0

C2_FilteredIsListAllMinusProtected ==
    last.op = "listRemovable" =>
      LET all == GetWorktreeDirs(fs, last.gitRoot) IN
      /\ last.res.err = all.err
      /\ last.res.dirs = SelectSeq(all.dirs, LAMBDA d : Base(d) \notin ProtectedNameSet)
      /\ \A i \in 1..Len(last.res.dirs) : Base(last.res.dirs[i]) \notin ProtectedNameSet

C2_Witness ==
    /\ last.op = "listRemovable"
    /\ IsDir(fs, Append(Root, Master)) /\ IsDir(fs, Append(Root, Review))
    /\ Len(last.res.dirs) = 2

\* C3: GetWorktreeDirs returns one entry for every immediate child of the
\* root that is a directory with a name not starting with '.', and nothing
\* else; an unreadable root gives an error and no entries.
C3_ListAllIsVisibleDirs ==
    last.op = "listAll" =>
      LET r == last.res
          visible == {p \in DOMAIN fs : /\ Len(p) = Len(Root) + 1
                                        /\ IsPrefix(Root, p)
                                        /\ fs[p] = "dir"
                                        /\ Head(Base(p)) # Dot}
      IN IF Root \in DOMAIN fs /\ fs[Root] = "dir"
         THEN /\ ~r.err
              /\ {r.dirs[i] : i \in 1..Len(r.dirs)} = visible
              /\ Len(r.dirs) = Cardinality(visible)
         ELSE r.err /\ r.dirs = <<>>

C3_Witness ==
    /\ last.op = "listAll" /\ ~last.res.err
    /\ Append(Root, DotGit) \in DOMAIN fs /\ fs[Append(Root, DotGit)] = "file"
    /\ IsDir(fs, Append(Root, DotBare))
    /\ Len(last.res.dirs) = 3

C3_WitnessUnreadable ==
    last.op = "listAll" /\ last.res.err

-----------------------------------------------------------------------------
(* Claims about the lifecycle commands.  `last` holds the last command:    *)
(* its arguments, the root it resolved, its output, the steps it took and  *)
(* the repository as it was before.                                        *)

ListAll_(f, gitRoot) == Range(GetWorktreeDirs(f, gitRoot).dirs)
Names(dirs) == {Base(d) : d \in dirs}
SignalCount(out) == Cardinality({i \in 1..Len(out) : out[i].tag = "WT_CHDIR"})
Ran(op) == last.op = op /\ last.gitRoot # NoPath
Interactive == last.name = NoArg

\* C4: after AddWorktree(branch, base) returns success listAll has exactly
\* one entry that was not there before, named branch, and the hook has run
\* exactly once in the new worktree if the hook file existed before the
\* call, and not at all if it did not.
C4_AddOneNewEntry ==
    (Ran("add") /\ ~last.err) =>
      /\ ListAll_(fs, last.gitRoot) \ ListAll_(last.preFs, last.gitRoot)
           = {Append(last.gitRoot, last.name)}
      /\ IF Exists(last.preFs, GetPostAddHook(last.gitRoot))
         THEN last.hookRuns = <<Join(last.gitRoot, last.name)>>
         ELSE last.hookRuns = <<>>

\* the steps of a clear, by item
RemoveStepOf(item) == {i \in 1..Len(last.steps) :
                         last.steps[i].step = "remove" /\ last.steps[i].item = item}
RemovalSucceeded(item) == \E i \in RemoveStepOf(item) : last.steps[i].ok

\* C5: ClearWorktrees returns success whenever the enumeration succeeds;
\* every removable worktree whose removal succeeded is absent from listAll
\* afterwards and every one whose removal failed is still present; every
\* item is attempted, whatever failed before it; if every removal
\* succeeds, listAll is left with exactly the protected directories.
C5_ClearBestEffort ==
    Ran("clear") =>
      LET before == GetWorktreeDirs(last.preFs, last.gitRoot)
          after == ListAll_(fs, last.gitRoot)
      IN ~before.err =>
           /\ ~last.err
           /\ \A item \in Range(last.offered) :
                /\ Cardinality(RemoveStepOf(item)) = 1
                /\ RemovalSucceeded(item) => item \notin after
                /\ ~RemovalSucceeded(item) => item \in after
           /\ (\A item \in Range(last.offered) : RemovalSucceeded(item)) =>
                after = {d \in Range(before.dirs) : Base(d) \in ProtectedNameSet}

C7_RemoveThenAddAgain ==
    (Ran("rm") /\ last.steps # <<>> /\ ~last.err
       /\ Base(last.res) # Main /\ Main \in branches) =>
      LET name == Base(last.res)
          again == AddWorktree(Git(fs, branches, wts), last.gitRoot, name, Main, TRUE, TRUE)
      IN /\ ~again.err
         /\ Append(last.gitRoot, name) \in ListAll_(again.g.fs, last.gitRoot)
         /\ name \in again.g.br

\* C8: RemoveWorktree removes the worktree, then deletes the branch.  If
\* the removal fails it returns the error without attempting the deletion
\* and the directories and branches are unchanged; if the removal succeeds
\* and the deletion fails it returns an error while the removed directory
\* is gone and stays gone.
C8_RemoveNotTransactional ==
    (Ran("rm") /\ last.steps # <<>>) =>
      LET s == last.steps IN
      /\ s[1].step = "remove"
      /\ ~s[1].ok =>
           /\ last.err /\ Len(s) = 1
           /\ fs = last.preFs /\ branches = last.preBranches /\ wts = last.preWts
      /\ s[1].ok =>
           /\ Len(s) = 2 /\ s[2].step = "delete"
           /\ \A w \in s[1].removed : w \in DOMAIN last.preFs /\ w \notin DOMAIN fs
           /\ s[1].removed # {}
           /\ ~s[2].ok => last.err /\ branches = last.preBranches
           /\ s[2].ok => ~last.err

C8_Witness ==
    /\ Ran("rm") /\ Len(last.steps) = 2
    /\ last.steps[1].ok /\ ~last.steps[2].ok
    /\ last.err /\ fs # last.preFs

C8_WitnessRemoveFails ==
    /\ Ran("rm") /\ Len(last.steps) = 1 /\ ~last.steps[1].ok
    /\ last.res \in DOMAIN wts

\* C9: if the hook fails after the worktree was added, AddWorktree returns
\* an error marked as a hook failure, which a failure to create the
\* worktree never is, and the new worktree directory and branch stay.
C9_HookFailureKeepsWorktree ==
    (Ran("add") /\ last.err) =>
      /\ (last.errKind = "hook") = (last.steps[1].ok /\ last.hookRuns # <<>>)
      /\ ~last.steps[1].ok => last.errKind = "worktree-add" /\ last.hookRuns = <<>>
      /\ last.errKind = "hook" =>
           /\ IsDir(fs, Join(last.gitRoot, last.name))
           /\ Join(last.gitRoot, last.name) \notin DOMAIN last.preFs
           /\ Join(last.gitRoot, last.name) \in DOMAIN wts
           /\ last.name \in branches /\ last.name \notin last.preBranches

C9_Witness ==
    /\ Ran("add") /\ last.err /\ last.errKind = "hook"
    /\ last.hookRuns = <<Join(last.gitRoot, last.name)>>

\* C10 as claimed: every add, switch (by name or by confirmed selection)
\* and setup that completes successfully writes exactly one WT_CHDIR line;
\* clear writes at most one; a failed command and a declined switch write
\* none; rm never writes one.
Declined == last.op = "switch" /\ Interactive /\ ~last.err /\ last.res = NoPath /\ last.offered # <<>>

NoWorktrees == last.op = "switch" /\ ~last.err /\ ListAll_(fs, last.gitRoot) = {}

C10_WitnessNoWorktrees ==
    NoWorktrees /\ ~Interactive /\ last.out = <<Info>>


-----------------------------------------------------------------------------
(* Claims about the shell wrapper *)

Wrapped == last.op \in {"wt", "worktree"} /\ last.name \in {CmdAdd, CmdSwitch, CmdSw}
Captured == IF last.op = "wt" THEN last.out ELSE OnStream(last.out, {"stderr"})
SignalLines(lines) == SelectSeq(lines, LAMBDA l : l.tag = "WT_CHDIR")
OtherLines(lines) == SelectSeq(lines, LAMBDA l : l.tag \in {"info", "error"})
\* the captured output holds exactly one line WT_CHDIR:<p> with p not empty
OneSignal == Len(SignalLines(Captured)) = 1 /\ SignalLines(Captured)[1].text # <<>>
SignalPath == ResolvePath(last.pcwd, SignalLines(Captured)[1].text)

\* C11: when the captured output of a wrapped command holds a line
\* WT_CHDIR:<p>, the wrapper leaves the shell in p if p is an existing
\* directory (and cd succeeds), and warns without changing directory if p
\* does not exist; either way the other lines are shown and the command's
\* exit code is returned.
C11_WrapperSemantics ==
    (Wrapped /\ OneSignal) =>
        /\ last.res.ret = ExitCode(last.err)
        /\ OtherLines(last.res.shown) = OtherLines(last.out)
        /\ (SignalPath.known /\ IsDir(fs, SignalPath.path) /\ last.res.cdOk)
              => cwd = SignalPath.path
        /\ ~(SignalPath.known /\ Exists(fs, SignalPath.path))
              => cwd = last.pcwd /\ Warning \in Range(last.res.shown)

\* what holds of the wrappers: as C11, without the warning
C11_WithoutWarning ==
    (Wrapped /\ OneSignal) =>
        /\ last.res.ret = ExitCode(last.err)
        /\ OtherLines(last.res.shown) = OtherLines(last.out)
        /\ (SignalPath.known /\ IsDir(fs, SignalPath.path) /\ last.res.cdOk)
              => cwd = SignalPath.path
        /\ ~(SignalPath.known /\ Exists(fs, SignalPath.path))
              => cwd = last.pcwd /\ last.res.shown = last.out

C11_WitnessChanged ==
    /\ Wrapped /\ OneSignal /\ SignalPath.known /\ IsDir(fs, SignalPath.path)
    /\ cwd = SignalPath.path /\ cwd # last.pcwd

C11_WitnessMissing ==
    Wrapped /\ OneSignal /\ ~(SignalPath.known /\ Exists(fs, SignalPath.path))

-----------------------------------------------------------------------------
(* Claims about the setup command *)

SetupRan == last.op = "setup" /\ last.errKind \notin {"parse", "config"}
OnDefaultHost == ~IsGitHubEnterprise(last.res)
NoAccount == last.account = <<>>
StepKinds == {last.steps[i].step : i \in DOMAIN last.steps}
LayoutSteps == {"mkdir", "chdir", "clone", "gitfile", "remote", "hooks", "worktree"}

\* C12: setup on github.com with no account configured fails with the
\* guidance error before any side effect: no directory, clone, pointer file,
\* hook or worktree is made.
C12_NoAccountNoSideEffect ==
    (SetupRan /\ OnDefaultHost /\ NoAccount) =>
        /\ last.err /\ last.errKind = "no-account"
        /\ StepKinds \cap LayoutSteps = {}
        /\ fs = last.preFs /\ branches = last.preBranches /\ wts = last.preWts
        /\ SignalCount(last.out) = 0

C12_Witness ==
    SetupRan /\ OnDefaultHost /\ NoAccount /\ last.errKind = "no-account"

SetupSucceeded == SetupRan /\ ~last.err
\* the root that setup made, and the step that cloned
NewRoot == Join(P, last.res.RepoName)
CloneSteps == {i \in DOMAIN last.steps : last.steps[i].step = "clone"}
ClonedInto(dir) == \E i \in CloneSteps : last.steps[i].item = dir /\ last.steps[i].ok
HookBase(base) ==
    /\ GetPostAddHook(NewRoot) \in DOMAIN content
    /\ content[GetPostAddHook(NewRoot)] = RenderHook(base, last.res.Branch)
CanonicalURL == HttpsURL(last.res.Domain, last.res.Org, last.res.RepoName)
ForkURL == HttpsURL(last.res.Domain, last.account, last.res.RepoName)

\* C13: setup on an enterprise host with no account clones domain/org/repo
\* into <repo>/.bare; on success the only remote is origin and the hook
\* pulls from origin.
C13_EnterpriseDirectClone ==
    (SetupSucceeded /\ ~OnDefaultHost /\ NoAccount) =>
        /\ ClonedInto(Append(NewRoot, DotBare))
        /\ DOMAIN remotes = {Origin}
        /\ remotes[Origin] = CanonicalURL
        /\ HookBase(Origin)

C13_Witness ==
    /\ SetupSucceeded /\ ~OnDefaultHost /\ NoAccount
    /\ IsDir(fs, Append(NewRoot, DotBare)) /\ DOMAIN remotes = {Origin}

\* C14: setup with an account configured.  Enterprise host: origin is the
\* account's fork, upstream is domain/org/repo, the hook pulls from upstream.
\* Default host: origin is domain/org/repo, a remote named after the account
\* pointing at the fork exists iff the account differs from the org, the hook
\* pulls from origin.
C14_RemotesWithAccount ==
    (SetupSucceeded /\ ~NoAccount) =>
        IF OnDefaultHost
        THEN /\ Origin \in DOMAIN remotes /\ remotes[Origin] = CanonicalURL
             /\ (last.account # last.res.Org) <=>
                   (last.account \in DOMAIN remotes /\ remotes[last.account] = ForkURL)
             /\ (last.account = last.res.Org) => DOMAIN remotes = {Origin}
             /\ HookBase(Origin)
        ELSE /\ Origin \in DOMAIN remotes /\ remotes[Origin] = ForkURL
             /\ Upstream \in DOMAIN remotes /\ remotes[Upstream] = CanonicalURL
             /\ HookBase(Upstream)

\* default host, account differing from the org
C14_Witness ==
    /\ SetupSucceeded /\ ~NoAccount /\ OnDefaultHost
    /\ last.account # last.res.Org /\ last.account \in DOMAIN remotes

C14_WitnessEnterprise ==
    SetupSucceeded /\ ~NoAccount /\ ~OnDefaultHost /\ Upstream \in DOMAIN remotes

C14_WitnessAccountIsOrg ==
    SetupSucceeded /\ OnDefaultHost /\ last.account = last.res.Org

PointerFile == Append(NewRoot, DotGit)
PointerWritten ==
    SetupRan /\ \E i \in DOMAIN last.steps :
                   last.steps[i].step = "gitfile" /\ last.steps[i].ok

\* C15: the pointer file <root>/.git that setup writes holds exactly
\* "gitdir: " followed by the absolute path of the new root and "/.bare",
\* and nothing after it.
C15_PointerFileContent ==
    PointerWritten =>
        /\ fs[PointerFile] # "dir"
        /\ content[PointerFile] =
              GitDirPrefix \o PathString(NewRoot) \o <<Slash>> \o DotBare

C15_Witness ==
    /\ PointerWritten /\ PointerFile \in DOMAIN content
    /\ HasPrefix(content[PointerFile], GitDirPrefix)

BaseBranch == last.res.Branch

SetupFailed == last.op = "setup" /\ last.errKind # "parse" /\ last.err
\* what a step that succeeded has made is there
StepProductPresent(st) ==
    CASE st.step \in {"mkdir", "chdir", "clone"} -> IsDir(fs, st.item)
      [] st.step \in {"gitfile", "hooks"} -> st.item \in DOMAIN fs /\ st.item \in DOMAIN content
      [] st.step = "remote" -> st.item[1] \in DOMAIN remotes
      [] st.step = "worktree" -> IsDir(fs, st.item) /\ st.item \in DOMAIN wts
      [] OTHER -> TRUE

\* C17: when a step of setup fails, SetupRepository returns that error and
\* runs no later step, nothing made by the earlier steps or present before
\* is removed, and the command writes no WT_CHDIR line.
C17_SetupFailureNoRollback ==
    SetupFailed =>
        /\ last.steps # <<>>
        /\ \A i \in DOMAIN last.steps : last.steps[i].ok <=> i < Len(last.steps)
        /\ last.steps[Len(last.steps)].step = last.errKind
        /\ \A i \in DOMAIN last.steps : last.steps[i].ok => StepProductPresent(last.steps[i])
        /\ \A p \in DOMAIN last.preFs : p \in DOMAIN fs
        /\ last.preBranches \subseteq branches
        /\ SignalCount(last.out) = 0

\* the review worktree fails after the six steps before it succeeded
C17_Witness ==
    /\ SetupFailed /\ Len(last.steps) >= 7
    /\ last.steps[Len(last.steps)].item = Append(NewRoot, Review)
    /\ IsDir(fs, Append(NewRoot, BaseBranch))

C17_WitnessCloneFails ==
    SetupFailed /\ last.errKind = "clone" /\ IsDir(fs, NewRoot)

-----------------------------------------------------------------------------
(* Claims about CreateHooks *)

HooksCreated == last.op = "hooks" /\ ~last.err
Hook == GetPostAddHook(last.gitRoot)
PullLine == <<"g", "i", "t", " ", "p", "u", "l", "l", " ">> \o last.base \o <<" ">> \o last.name
EndsWith(s, t) == Len(s) >= Len(t) /\ SubSeq(s, Len(s) - Len(t) + 1, Len(s)) = t

\* C18: CreateHooks(base, branch) leaves .hooks/post-add.sh executable and
\* holding the template rendered with that base and branch, ending in
\* "git pull <base> <branch>", whatever the file held before; so a second
\* call decides the file alone and a repeated call changes nothing.
C18_CreateHooksOverwrites ==
    HooksCreated =>
        /\ fs[Hook] = "exec"
        /\ content[Hook] = RenderHook(last.base, last.name)
        /\ EndsWith(content[Hook], PullLine)

\* what holds of CreateHooks: the content whatever was there before, and
\* the execute permission when the call creates the file or the file had it
C18_ContentOverwritten ==
    HooksCreated =>
        /\ content[Hook] = RenderHook(last.base, last.name)
        /\ EndsWith(content[Hook], PullLine)
        /\ fs[Hook] = (IF Hook \in DOMAIN last.preFs THEN last.preFs[Hook] ELSE "exec")

\* a call with the arguments of the successful call before it changes nothing
C18_RepeatedCallChangesNothing ==
    [][(HooksCreated /\ last'.op = "hooks" /\ ~last'.err
           /\ last'.base = last.base /\ last'.name = last.name)
        => (fs' = fs /\ content' = content)]_vars

C18_WitnessNotExecutable ==
    HooksCreated /\ Hook \in DOMAIN last.preFs /\ last.preFs[Hook] = "file"

C18_WitnessOverwritten ==
    /\ HooksCreated /\ Hook \in DOMAIN last.preFs
    /\ content[Hook] = RenderHook(last.base, last.name)

-----------------------------------------------------------------------------
(* Claims about SSH authentication and repository URLs *)

SshCloneRan == last.op = "clone" /\ HasPrefix(last.name, GitAt)
MethodOrder == <<"sock-agent", "agent", "id_rsa", "id_ed25519", "id_ecdsa">>
\* whether a method yields credentials in an environment
Succeeds(env, m) ==
    CASE m = "sock-agent" -> env.sock = "keys" /\ env.auth1
      [] m = "agent" -> env.auth2
      [] OTHER -> env.home /\ env.key[m] = "good"
Position(m) == CHOOSE i \in DOMAIN MethodOrder : MethodOrder[i] = m
Working(env) == {i \in DOMAIN MethodOrder : Succeeds(env, MethodOrder[i])}
FirstWorking(env) == CHOOSE i \in Working(env) : \A j \in Working(env) : i <= j
TriedPositions == {Position(last.res.auth.tried[k]) : k \in DOMAIN last.res.auth.tried}

C19_WitnessAllFail ==
    SshCloneRan /\ last.errKind = "no-ssh-auth" /\ last.res.clones = 0

URLGenerated == last.op = "url"
\* the host entry that the configuration holds for the domain of the call;
\* the empty domain stands for github.com
EntryDomain == IF last.res.domain = <<>> THEN GitHubCom ELSE last.res.domain
HasEntry == EntryDomain \in DOMAIN last.res.cfg.Hosts
ConfiguredMethod == last.res.cfg.Hosts[EntryDomain].CloneMethod
SshForm ==
    <<"g", "i", "t", "@">> \o last.res.domain \o <<":">> \o last.res.org \o <<Slash>>
        \o last.res.repo \o <<".", "g", "i", "t">>
HttpsForm ==
    <<"h", "t", "t", "p", "s", ":", "/", "/">> \o last.res.domain \o <<Slash>>
        \o last.res.org \o <<Slash>> \o last.res.repo \o <<".", "g", "i", "t">>

\* C20: GenerateRepositoryURL(domain, org, repo) is git@<domain>:<org>/<repo>.git
\* when the clone method configured for the domain is ssh, and
\* https://<domain>/<org>/<repo>.git when it is http, unset, or the domain
\* has no host entry; nothing else of the configuration matters.
C20_RepositoryURL ==
    URLGenerated =>
        /\ (HasEntry /\ ConfiguredMethod = "ssh") => last.res.url = SshForm
        /\ (~HasEntry \/ ConfiguredMethod \in {"http", ""}) => last.res.url = HttpsForm

C20_Witness ==
    /\ URLGenerated /\ HasEntry /\ ConfiguredMethod = "ssh"
    /\ last.res.url = SshForm /\ last.res.domain = Enterprise

C20_WitnessNoEntry ==
    URLGenerated /\ ~HasEntry /\ last.res.url = HttpsForm

-----------------------------------------------------------------------------
(* Claims about the configuration path *)

RootRan == last.op = "root"
DefaultPath ==
    IF last.res.home = <<>> THEN <<>>
    ELSE last.res.home \o <<"/.config/worktree/settings.yaml">>

\* C21: the configuration path is the value of --config if the flag is
\* given, else the value of WORKTREE_CONFIG if it is set and not empty, else
\* ~/.config/worktree/settings.yaml.
C21_ConfigPathPriority ==
    RootRan =>
        last.res.path = (IF last.res.flag # NotGiven THEN last.res.flag
                         ELSE IF last.res.env # EnvUnset THEN last.res.env
                         ELSE DefaultPath)

\* what holds of the commands: without the flag the default path wins over
\* the variable whenever the home directory is known
C21_DefaultShadowsEnv ==
    RootRan =>
        last.res.path = (IF last.res.flag # NotGiven THEN last.res.flag
                         ELSE IF DefaultPath # <<>> THEN DefaultPath
                         ELSE last.res.env)

C21_WitnessEnvIgnored ==
    /\ RootRan /\ last.res.flag = NotGiven /\ last.res.env # EnvUnset
    /\ last.res.path = DefaultPath /\ last.res.path # last.res.env

-----------------------------------------------------------------------------
(* Claims about ClearWorktrees called directly *)

ClearCalled == last.op = "ClearWorktrees"
NothingRemovable ==
    \A d \in ListAll_(last.preFs, last.gitRoot) : Base(d) \in {Main, Master, Review}

\* C22: ClearWorktrees on a root without removable worktrees succeeds with
\* no side effect: nothing is removed, no removal is attempted, and the
\* working directory of the process is what it was before the call.
C22_ClearNothingToDo ==
    (ClearCalled /\ NothingRemovable) =>
        /\ ~last.err
        /\ fs = last.preFs /\ branches = last.preBranches /\ wts = last.preWts
        /\ last.steps = <<>>
        /\ cwd = last.pcwd

\* what holds of ClearWorktrees: as C22, with the process left in the root
C22_ClearLeavesProcessInRoot ==
    (ClearCalled /\ NothingRemovable) =>
        /\ ~last.err
        /\ fs = last.preFs /\ branches = last.preBranches /\ wts = last.preWts
        /\ last.steps = <<>>
        /\ cwd = last.gitRoot

C22_WitnessMoved ==
    /\ ClearCalled /\ NothingRemovable /\ last.pcwd = Append(Root, Main)
    /\ cwd = Root /\ fs = last.preFs

-----------------------------------------------------------------------------
(* Claims about the commands run through the shell wrapper *)

CmdSetup == <<"s", "e", "t", "u", "p">>
CmdWord ==
    CASE last.op = "add" -> CmdAdd
      [] last.op = "switch" -> CmdSwitch
      [] last.op = "setup" -> CmdSetup
      [] OTHER -> CmdClear
\* the command wrote one signal line, and it names an existing directory as
\* seen from the directory of the shell
Signalled == SelectSeq(last.out, LAMBDA l : l.tag = "WT_CHDIR")
SignalledDir == ResolvePath(cwd, Signalled[1].text)
SignalsDirectory ==
    /\ last.op \in {"add", "switch", "setup", "clear"}
    /\ Len(Signalled) = 1 /\ Signalled[1].text # <<>>
    /\ SignalledDir.known /\ IsDir(fs, SignalledDir.path)
\* where the shell is after the function wt has run the command
ShellAfterWt == wt(fs, cwd, CmdWord, last.out, ExitCode(last.err), TRUE).cwd
ShellAfterWorktree == worktree(fs, cwd, CmdWord, last.out, ExitCode(last.err), TRUE).cwd

\* C23: a command that writes a signal line naming an existing directory,
\* run through the shell wrapper, leaves the shell in that directory.
C23_EndToEndChdir ==
    SignalsDirectory => ShellAfterWt = SignalledDir.path

\* what holds: the function wt follows the signal of add and switch
C23_WtFollowsAddAndSwitch ==
    (SignalsDirectory /\ last.op \in {"add", "switch"}) =>
        ShellAfterWt = SignalledDir.path

\* setup succeeded and the shell is still in the parent directory
C23_WitnessSetupIgnored ==
    /\ SignalsDirectory /\ last.op = "setup"
    /\ ShellAfterWt = cwd /\ ShellAfterWorktree = cwd /\ SignalledDir.path # cwd

\* the function worktree scans the error stream; add writes to the other
C23_WitnessAddIgnored ==
    /\ SignalsDirectory /\ last.op = "add"
    /\ ShellAfterWorktree = cwd /\ SignalledDir.path # cwd

-----------------------------------------------------------------------------
(* Claims about the order of the steps of setup *)

\* the place of a step in the order clone, remotes, pointer file, hook,
\* base-branch worktree, review worktree
ClaimedRank(st) ==
    CASE st.step = "clone" -> 1
      [] st.step = "remote" -> 2
      [] st.step = "gitfile" -> 3
      [] st.step = "hooks" -> 4
      [] st.step = "worktree" -> IF st.item = Append(NewRoot, Review) THEN 6 ELSE 5
      [] OTHER -> 0
\* the order in which the setup functions make their calls
CodeRank(st) ==
    CASE st.step = "clone" -> 1
      [] st.step = "gitfile" -> 2
      [] st.step = "remote" -> 3
      [] st.step = "hooks" -> 4
      [] st.step = "worktree" -> IF st.item = Append(NewRoot, Review) THEN 6 ELSE 5
      [] OTHER -> 0
InOrder(Rank(_)) ==
    \A i, j \in DOMAIN last.steps : i < j => Rank(last.steps[i]) <= Rank(last.steps[j])
RemoteAddFailed ==
    SetupRan /\ last.err /\ last.errKind = "remote"

\* C24: in every run of setup the steps happen in the order clone, remotes,
\* pointer file, hook, base-branch worktree, review worktree; the pointer
\* file is written only after every remote-add, so a run whose remote-add
\* failed leaves no pointer file that was not there before.
C24_BootstrapStepOrder ==
    SetupRan =>
        /\ InOrder(ClaimedRank)
        /\ RemoteAddFailed => (PointerFile \in DOMAIN fs => PointerFile \in DOMAIN last.preFs)

\* what the code does: the pointer file comes between the clone and the
\* remote-add, the rest in the claimed order
C24_PointerBeforeRemotes ==
    SetupRan =>
        /\ InOrder(CodeRank)
        /\ RemoteAddFailed => PointerWritten

C24_WitnessPointerLeftBehind ==
    /\ RemoteAddFailed
    /\ PointerFile \in DOMAIN fs /\ PointerFile \notin DOMAIN last.preFs
    /\ content[PointerFile] = GitDirContent(NewRoot)

C24_WitnessAllSteps ==
    SetupSucceeded /\ {ClaimedRank(last.steps[i]) : i \in DOMAIN last.steps} = 0..6

-----------------------------------------------------------------------------
(* Claims about rm with a name *)

NamedRm == Ran("rm") /\ ~Interactive /\ last.errKind # "list"
MatchedEntries == {d \in ListAll_(last.preFs, last.gitRoot) : Base(d) = last.name}

\* C25: rm <name> with a name that is the base name of an entry of listAll
\* goes on to RemoveWorktree for that entry whether or not the name is
\* protected, so rm main removes the worktree main once git has removed
\* it; with a name that matches
\* no entry, a hidden name such as .bare included, it fails with the
\* not-found error and removes nothing.
C25_TargetedRemoval ==
    NamedRm =>
        IF MatchedEntries # {}
        THEN /\ last.steps # <<>>
             /\ last.steps[1].step = "remove"
             /\ last.steps[1].item \in MatchedEntries
             /\ (last.name \in {Main, Master, Review} /\ last.steps[1].ok) =>
                    MatchedEntries \cap DOMAIN fs = {}
        ELSE /\ last.err /\ last.errKind = "notfound"
             /\ last.steps = <<>>
             /\ fs = last.preFs /\ branches = last.preBranches /\ wts = last.preWts

C25_WitnessProtectedRemoved ==
    /\ NamedRm /\ last.name = Main /\ ~last.err
    /\ IsDir(last.preFs, Append(last.gitRoot, Main))
    /\ Append(last.gitRoot, Main) \notin DOMAIN fs

C25_WitnessHiddenNotFound ==
    /\ NamedRm /\ last.name = DotBare /\ last.errKind = "notfound"
    /\ IsDir(fs, Append(last.gitRoot, DotBare))

-----------------------------------------------------------------------------
(* Claims about what the worktree commands leave alone *)

LifecycleOps == {"add", "rm", "clear", "switch"}
Guarded == {Bare, Append(Root, DotGit), GetPostAddHook(Root)}
Kept(p) ==
    /\ p \in DOMAIN fs => (p \in DOMAIN fs' /\ fs'[p] = fs[p])
    /\ p \in DOMAIN content => (p \in DOMAIN content' /\ content'[p] = content[p])

\* C26: no add, rm (with a name or interactive), clear or switch command
\* deletes or rewrites the bare store .bare, the pointer file .git or the hook
\* file .hooks/post-add.sh: each of them that is there before the command is
\* there after it, of the same kind and with the same content.
C26_StorePointerHookKept ==
    [][last'.op \in LifecycleOps => \A p \in Guarded : Kept(p)]_vars

\* a clear that removed a worktree and its branch with the three in place
C26_Witness ==
    /\ Ran("clear") /\ ~last.err
    /\ \E i \in DOMAIN last.steps : last.steps[i].step = "remove" /\ last.steps[i].ok
    /\ IsDir(fs, Bare)
    /\ Guarded \ {Bare} \subseteq DOMAIN content
    /\ fs[GetPostAddHook(Root)] = "exec"

C26_WitnessAfterAdd ==
    /\ Ran("add") /\ last.hookRuns # <<>>
    /\ Guarded \subseteq DOMAIN fs

-----------------------------------------------------------------------------
(* Claims about the root that the commands resolve *)

\* the command found the layout of Root in place and ran in the directory cwd
RanInLayout ==
    /\ last.op \in LifecycleOps
    /\ IsDir(last.preFs, Bare) /\ Exists(last.preFs, Append(Root, DotGit))
    /\ IsDir(last.preFs, cwd)
StartedInWorktree == \E w \in DOMAIN last.preWts : IsPrefix(w, cwd)
StartedInPlainWorktree == \E w \in DOMAIN last.preWts : IsPrefix(w, cwd) /\ Dir(w) = Root
StartedInHooks == IsPrefix(GetHooksDir(Root), cwd)

\* C27: a command started in the root R of a bootstrapped layout, in a
\* directory inside any worktree of R (those of branch names with '/', at
\* R/<a>/<b>, included) or inside R/.hooks resolves GitRoot to R.
C27_RootResolution ==
    (RanInLayout /\ (cwd = Root \/ StartedInWorktree \/ StartedInHooks)) =>
        last.gitRoot = Root

\* from R and from the worktrees that are children of R the root is R
C27_RootFromPlainWorktrees ==
    (RanInLayout /\ (cwd = Root \/ StartedInPlainWorktree)) => last.gitRoot = Root

\* from R/.hooks the walk stops at R/.git and returns the parent of R
C27_WitnessHooks ==
    RanInLayout /\ StartedInHooks /\ last.gitRoot = Dir(Root)

\* from R/f/a the walk stops at R/f/a/.git and returns R/f
C27_WitnessSlashWorktree ==
    /\ RanInLayout /\ StartedInWorktree /\ cwd = Join(Root, BranchFA)
    /\ last.gitRoot = Dir(cwd) /\ last.gitRoot # Root

C27_WitnessPlain ==
    RanInLayout /\ StartedInPlainWorktree /\ cwd # Root /\ last.gitRoot = Root

-----------------------------------------------------------------------------
(* Claims about the name of the worktree of a branch *)

Added == Ran("add") /\ ~last.err
ListedByName == FindByName(GetWorktreeDirs(fs, last.gitRoot).dirs, last.name)
\* the state after a clear in which git refuses nothing
Cleared == ClearWorktrees(Git(fs, branches, wts), last.gitRoot, {}, {}).g
HasSlash(b) == Len(Split(b, Slash)) > 1

\* C28: after add <b> succeeds, for a name with '/' as for one without,
\* listAll has an entry named b: the lookup by name of switch <b> and rm <b>
\* finds the worktree of b, and a clear removes that worktree together with
\* the branch b.
C28_NameEqualsBranch ==
    Added =>
        /\ last.name \in Names(ListAll_(fs, last.gitRoot))
        /\ ListedByName = Join(last.gitRoot, last.name)
        /\ Join(last.gitRoot, last.name) \notin DOMAIN Cleared.wt
        /\ last.name \notin Cleared.br

\* the same for the names that have no '/'
C28_PlainNameEqualsBranch ==
    (Added /\ ~HasSlash(last.name)) =>
        /\ last.name \in Names(ListAll_(fs, last.gitRoot))
        /\ ListedByName = Join(last.gitRoot, last.name)
        /\ Join(last.gitRoot, last.name) \notin DOMAIN Cleared.wt
        /\ last.name \notin Cleared.br

\* add f/a made the worktree R/f/a: listAll shows f, no lookup finds f/a,
\* and a clear leaves the worktree and the branch
C28_WitnessSlashName ==
    /\ Added /\ last.name = BranchFA
    /\ Base(Dir(Join(last.gitRoot, BranchFA))) \in Names(ListAll_(fs, last.gitRoot))
    /\ ListedByName = <<>>
    /\ Join(last.gitRoot, BranchFA) \in DOMAIN Cleared.wt
    /\ BranchFA \in Cleared.br

C28_WitnessPlainName ==
    Added /\ last.name = NameA /\ ListedByName = Append(last.gitRoot, NameA)

-----------------------------------------------------------------------------
(* Claims about the order of the steps of ClearWorktrees *)

RemoveSteps == SelectSeq(last.steps, LAMBDA st : st.step = "remove")
ItemsInOrder == [i \in 1..Len(RemoveSteps) |-> RemoveSteps[i].item]
FailedRemovals == {RemoveSteps[i].item : i \in {j \in 1..Len(RemoveSteps) : ~RemoveSteps[j].ok}}

\* C29: ClearWorktrees goes through the removable worktrees one after
\* another in the order of the enumeration; the deletion of an item's branch
\* is attempted directly after that item's worktree removal and only if the
\* removal succeeded, before the next item is started; the branch of a
\* worktree whose removal failed is not deleted.
C29_ClearStepOrder ==
    ClearCalled =>
        /\ ItemsInOrder = last.offered
        /\ \A i \in DOMAIN last.steps :
              /\ last.steps[i].step \in {"remove", "delete"}
              /\ last.steps[i].step = "delete" =>
                    /\ i > 1
                    /\ last.steps[i - 1].step = "remove" /\ last.steps[i - 1].ok
                    /\ last.steps[i - 1].item = last.steps[i].item
              /\ (last.steps[i].step = "remove" /\ last.steps[i].ok) =>
                    /\ i < Len(last.steps)
                    /\ last.steps[i + 1].step = "delete"
                    /\ last.steps[i + 1].item = last.steps[i].item
        /\ \A item \in FailedRemovals :
              /\ item \in DOMAIN fs
              /\ Base(item) \in last.preBranches => Base(item) \in branches

\* two removable worktrees, the removal of the first fails: its branch is
\* kept and the second is removed with its branch
C29_Witness ==
    /\ ClearCalled /\ Len(last.offered) = 2
    /\ FailedRemovals = {last.offered[1]}
    /\ Base(last.offered[1]) \in branches
    /\ Len(last.steps) = 3 /\ last.steps[3].step = "delete" /\ last.steps[3].ok
    /\ Base(last.offered[2]) \notin branches

-----------------------------------------------------------------------------
(* Claims about an add whose worktree-add step fails *)

WorktreeAddFailed == Ran("add") /\ last.errKind = "worktree-add"
NoHookNoSignalError ==
    /\ last.err /\ last.hookRuns = <<>>
    /\ SignalCount(last.out) = 0
    /\ \E i \in 1..Len(last.out) : last.out[i] = ErrLine
NewPath == Join(last.gitRoot, last.name)
BaseOf == IF last.base = <<>> THEN Main ELSE last.base

\* C30: when the worktree-add step of add <b> fails (a directory or a branch
\* named b exists, or the base branch does not), the hook is not run, no
\* WT_CHDIR line is written, the command reports the error, and the
\* worktree directories and the branches are those from before the call.
C30_FailedAddChangesNothing ==
    WorktreeAddFailed =>
        /\ NoHookNoSignalError
        /\ fs = last.preFs /\ wts = last.preWts
        /\ branches = last.preBranches

\* what holds whatever made the step fail: no hook, no signal, the error,
\* and the directories and worktrees unchanged; the branches are unchanged
\* when the branch existed or the base did not
C30_FailedAddKeepsDirectories ==
    WorktreeAddFailed =>
        /\ NoHookNoSignalError
        /\ fs = last.preFs /\ wts = last.preWts
        /\ last.preBranches \subseteq branches
        /\ (last.name \in last.preBranches \/ BaseOf \notin last.preBranches) =>
              branches = last.preBranches

\* the directory exists and the branch does not: git has made the branch
\* before it refuses the path
C30_WitnessBranchLeftBehind ==
    /\ WorktreeAddFailed
    /\ IsDir(last.preFs, NewPath)
    /\ last.name \notin last.preBranches
    /\ branches = last.preBranches \cup {last.name}

\* the branch is there without its worktree, left by an earlier removal
C30_WitnessStaleBranch ==
    /\ WorktreeAddFailed
    /\ last.name \in last.preBranches
    /\ ~Exists(last.preFs, NewPath)
    /\ branches = last.preBranches
====
